---- MODULE Spec2Model ----
(***************************************************************************)
(* v-storage: the Storage capability contract, the in-memory backend, the  *)
(* three dispatch wrappers (VStorage, VStorageGeneric, VStorageEnum) and   *)
(* the shared-environment registry with the per-namespace LMDB instances.  *)
(***************************************************************************)
EXTENDS Integers, Sequences, FiniteSets, TLC

\* ------------------------------------------------------------------------
\* Universe of the inputs
\* ------------------------------------------------------------------------

\* common.rs: enum StorageId
StorageId == {"Individuals", "Tickets", "Az"}

\* keys handed to the operations; the empty key is a legal key
Keys == {"", "k"}

\* &str payloads, as sequences of Unicode scalar values: "\u{e9}"
StrVals == {<<233>>}

\* Vec<u8> payloads: the empty vector and a byte that is not valid UTF-8
RawVals == {<< >>, <<255>>}

\* ------------------------------------------------------------------------
\* str::as_bytes / String::from_utf8
\* ------------------------------------------------------------------------

encode_char(c) ==
    IF c < 128 THEN <<c>>
    ELSE IF c < 2048 THEN <<192 + (c \div 64), 128 + (c % 64)>>
    ELSE IF c < 65536 THEN <<224 + (c \div 4096), 128 + ((c \div 64) % 64), 128 + (c % 64)>>
    ELSE <<240 + (c \div 262144), 128 + ((c \div 4096) % 64),
           128 + ((c \div 64) % 64), 128 + (c % 64)>>

RECURSIVE as_bytes(_)
as_bytes(s) ==
    IF s = << >> THEN << >> ELSE encode_char(Head(s)) \o as_bytes(Tail(s))

IsCont(b) == b >= 128 /\ b <= 191

\* width of the sequence started by the lead byte b, 0 for an illegal lead
utf8_width(b) ==
    IF b < 128 THEN 1
    ELSE IF b >= 194 /\ b <= 223 THEN 2
    ELSE IF b >= 224 /\ b <= 239 THEN 3
    ELSE IF b >= 240 /\ b <= 244 THEN 4
    ELSE 0

\* range check of the second byte (overlong forms, surrogates, > U+10FFFF)
second_ok(b, c) ==
    IF b = 224 THEN c >= 160 /\ c <= 191
    ELSE IF b = 237 THEN c >= 128 /\ c <= 159
    ELSE IF b = 240 THEN c >= 144 /\ c <= 191
    ELSE IF b = 244 THEN c >= 128 /\ c <= 143
    ELSE IsCont(c)

\* String::from_utf8: [ok |-> TRUE, s |-> the string] or [ok |-> FALSE]
RECURSIVE from_utf8(_)
from_utf8(v) ==
    IF v = << >> THEN [ok |-> TRUE, s |-> << >>]
    ELSE LET b == v[1]
             w == utf8_width(b)
         IN IF w = 0 \/ Len(v) < w THEN [ok |-> FALSE]
            ELSE IF w >= 2 /\ ~second_ok(b, v[2]) THEN [ok |-> FALSE]
            ELSE IF w >= 3 /\ ~IsCont(v[3]) THEN [ok |-> FALSE]
            ELSE IF w = 4 /\ ~IsCont(v[4]) THEN [ok |-> FALSE]
            ELSE LET c == IF w = 1 THEN b
                          ELSE IF w = 2 THEN (b - 192) * 64 + (v[2] - 128)
                          ELSE IF w = 3 THEN (b - 224) * 4096 + (v[2] - 128) * 64 + (v[3] - 128)
                          ELSE (b - 240) * 262144 + (v[2] - 128) * 4096
                               + (v[3] - 128) * 64 + (v[4] - 128)
                     rest == from_utf8(SubSeq(v, w + 1, Len(v)))
                 IN IF rest.ok THEN [ok |-> TRUE, s |-> <<c>> \o rest.s]
                    ELSE [ok |-> FALSE]

\* ------------------------------------------------------------------------
\* common.rs: StorageResult
\* ------------------------------------------------------------------------

Ok(x) == [tag |-> "Ok", val |-> x]
NotFound == [tag |-> "NotFound"]
NotReady == [tag |-> "NotReady"]
UnprocessableEntity == [tag |-> "UnprocessableEntity"]
Error(m) == [tag |-> "Error", msg |-> m]
\* the unit value ()
Unit == "()"
\* outcome of a call that unwinds instead of returning (Result::unwrap on Err)
Panic == [tag |-> "Panic"]

is_ok(r) == r.tag = "Ok"

is_error(r) == ~is_ok(r)

\* unwrap_or_default: default is T::default()
unwrap_or_default(r, default) ==
    CASE r.tag = "Ok" -> r.val
      [] OTHER        -> default

\* Vec::<u8>::default()
Vec_default == << >>

\* map and and_then take the closure f as the function it computes; they return
\* [out |-> the StorageResult returned, calls |-> how many times f was called]

\* a map that reports every non-success as NotReady (`_ => StorageResult::NotReady`)
StorageResult_map_not_ready(self, f) ==
    CASE self.tag = "Ok" -> [out |-> Ok(f[self.val]), calls |-> 1]
      [] OTHER           -> [out |-> NotReady, calls |-> 0]

StorageResult_map(self, f) ==
    CASE self.tag = "Ok"                  -> [out |-> Ok(f[self.val]), calls |-> 1]
      [] self.tag = "NotFound"            -> [out |-> NotFound, calls |-> 0]
      [] self.tag = "NotReady"            -> [out |-> NotReady, calls |-> 0]
      [] self.tag = "UnprocessableEntity" -> [out |-> UnprocessableEntity, calls |-> 0]
      [] self.tag = "Error"               -> [out |-> Error(self.msg), calls |-> 0]

StorageResult_and_then(self, f) ==
    CASE self.tag = "Ok"                  -> [out |-> f[self.val], calls |-> 1]
      [] self.tag = "NotFound"            -> [out |-> NotFound, calls |-> 0]
      [] self.tag = "NotReady"            -> [out |-> NotReady, calls |-> 0]
      [] self.tag = "UnprocessableEntity" -> [out |-> UnprocessableEntity, calls |-> 0]
      [] self.tag = "Error"               -> [out |-> Error(self.msg), calls |-> 0]

\* Option<T>
None == [tag |-> "None"]
Some(x) == [tag |-> "Some", val |-> x]

\* ------------------------------------------------------------------------
\* External collaborator: v_individual_model (Individual, parse_raw)
\* ------------------------------------------------------------------------

\* Individual::default(): no raw bytes
Individual_default == << >>

\* The payloads the external parser accepts. The parser is a deterministic
\* function of the raw bytes; of the payloads of this model it accepts the
\* two-byte one and rejects the empty one and the one-byte one.
Parsable == {<<195, 169>>}

\* Individual::set_raw followed by parse_raw(iraw).is_ok()
parse_raw_is_ok(raw) == raw \in Parsable

\* ------------------------------------------------------------------------
\* memory_storage.rs: MemoryStorage
\* ------------------------------------------------------------------------

\* RwLock<HashMap<String, Vec<u8>>>: the map and the poison flag of the lock
RwLock_new(m) == [data |-> m, poisoned |-> FALSE]

\* HashMap::new(): the function with the empty domain
HashMap_new == << >>

HashMap_insert(m, k, v) == [x \in (DOMAIN m) \cup {k} |-> IF x = k THEN v ELSE m[x]]

HashMap_remove(m, k) == [x \in (DOMAIN m) \ {k} |-> m[x]]

HashMap_len(m) == Cardinality(DOMAIN m)

MemoryStorage_new ==
    [individuals |-> RwLock_new(HashMap_new),
     tickets     |-> RwLock_new(HashMap_new),
     az          |-> RwLock_new(HashMap_new)]

\* a get_storage whose Az arm borrows the tickets map
get_storage_az_in_tickets(storage) ==
    CASE storage = "Individuals" -> "individuals"
      [] storage = "Tickets"     -> "tickets"
      [] storage = "Az"          -> "tickets"

\* the field of MemoryStorage that get_storage borrows
get_storage(storage) ==
    CASE storage = "Individuals" -> "individuals"
      [] storage = "Tickets"     -> "tickets"
      [] storage = "Az"          -> "az"

\* Every operation returns [res |-> outcome, st |-> the backend afterwards];
\* get_individual also returns iraw, the caller's Individual afterwards.

MemoryStorage_get_individual(self, storage, uri, iraw) ==
    LET lock == self[get_storage(storage)]
    IN IF lock.poisoned THEN [res |-> Panic, st |-> self, iraw |-> iraw]
       ELSE IF uri \in DOMAIN lock.data
            THEN LET data == lock.data[uri]
                 IN [res  |-> IF parse_raw_is_ok(data) THEN Ok(Unit) ELSE UnprocessableEntity,
                     st   |-> self,
                     iraw |-> data]
            ELSE [res |-> NotFound, st |-> self, iraw |-> iraw]

\* a get_value that reports bytes that are not UTF-8 as an absent key
MemoryStorage_get_value_utf8_or_absent(self, storage, key) ==
    LET lock == self[get_storage(storage)]
    IN IF ~lock.poisoned
       THEN IF key \in DOMAIN lock.data /\ from_utf8(lock.data[key]).ok
            THEN [res |-> Ok(from_utf8(lock.data[key]).s), st |-> self]
            ELSE [res |-> NotFound, st |-> self]
       ELSE [res |-> NotReady, st |-> self]

MemoryStorage_get_value(self, storage, key) ==
    LET lock == self[get_storage(storage)]
    IN IF ~lock.poisoned
       THEN IF key \in DOMAIN lock.data
            THEN LET d == from_utf8(lock.data[key])
                 IN [res |-> IF d.ok THEN Ok(d.s) ELSE Error("Invalid UTF-8 data"),
                     st  |-> self]
            ELSE [res |-> NotFound, st |-> self]
       ELSE [res |-> NotReady, st |-> self]

MemoryStorage_get_raw_value(self, storage, key) ==
    LET lock == self[get_storage(storage)]
    IN IF ~lock.poisoned
       THEN IF key \in DOMAIN lock.data
            THEN [res |-> Ok(lock.data[key]), st |-> self]
            ELSE [res |-> NotFound, st |-> self]
       ELSE [res |-> NotReady, st |-> self]

\* a put_value that keeps the payload of a key already present
\* (entry(key).or_insert(val) instead of insert(key, val))
MemoryStorage_put_value_or_insert(self, storage, key, val) ==
    LET f == get_storage(storage)
        lock == self[f]
    IN IF ~lock.poisoned
       THEN [res |-> Ok(Unit),
             st  |-> IF key \in DOMAIN lock.data THEN self
                     ELSE [self EXCEPT ![f].data = HashMap_insert(lock.data, key, as_bytes(val))]]
       ELSE [res |-> NotReady, st |-> self]

MemoryStorage_put_value(self, storage, key, val) ==
    LET f == get_storage(storage)
        lock == self[f]
    IN IF ~lock.poisoned
       THEN [res |-> Ok(Unit),
             st  |-> [self EXCEPT ![f].data = HashMap_insert(lock.data, key, as_bytes(val))]]
       ELSE [res |-> NotReady, st |-> self]

MemoryStorage_put_raw_value(self, storage, key, val) ==
    LET f == get_storage(storage)
        lock == self[f]
    IN IF ~lock.poisoned
       THEN [res |-> Ok(Unit),
             st  |-> [self EXCEPT ![f].data = HashMap_insert(lock.data, key, val)]]
       ELSE [res |-> NotReady, st |-> self]

\* a remove_value that ignores what HashMap::remove returned
MemoryStorage_remove_value_unchecked(self, storage, key) ==
    LET f == get_storage(storage)
        lock == self[f]
    IN IF ~lock.poisoned
       THEN [res |-> Ok(Unit),
             st  |-> [self EXCEPT ![f].data = HashMap_remove(lock.data, key)]]
       ELSE [res |-> NotReady, st |-> self]

MemoryStorage_remove_value(self, storage, key) ==
    LET f == get_storage(storage)
        lock == self[f]
    IN IF ~lock.poisoned
       THEN IF key \in DOMAIN lock.data
            THEN [res |-> Ok(Unit),
                  st  |-> [self EXCEPT ![f].data = HashMap_remove(lock.data, key)]]
            ELSE [res |-> NotFound, st |-> self]
       ELSE [res |-> NotReady, st |-> self]

\* a count that reads the individuals map whatever the namespace
MemoryStorage_count_individuals(self, storage) ==
    LET lock == self.individuals
    IN IF ~lock.poisoned
       THEN [res |-> Ok(HashMap_len(lock.data)), st |-> self]
       ELSE [res |-> NotReady, st |-> self]

MemoryStorage_count(self, storage) ==
    LET lock == self[get_storage(storage)]
    IN IF ~lock.poisoned
       THEN [res |-> Ok(HashMap_len(lock.data)), st |-> self]
       ELSE [res |-> NotReady, st |-> self]

\* ------------------------------------------------------------------------
\* common.rs: the deprecated default methods of trait Storage, as MemoryStorage
\* inherits them. Each returns [res |-> what the method returns, st |-> the
\* backend afterwards]; bool is BOOLEAN, Option is None / Some(x).
\* ------------------------------------------------------------------------

Storage_get_individual_from_db(self, storage, id, iraw) ==
    MemoryStorage_get_individual(self, storage, id, iraw)

Storage_get_v(self, storage, key) ==
    LET o == MemoryStorage_get_value(self, storage, key)
    IN [res |-> CASE o.res.tag = "Ok" -> Some(o.res.val)
                  [] OTHER            -> None,
        st  |-> o.st]

\* a get_raw that reads through get_value and returns the bytes of the string
Storage_get_raw_of_string(self, storage, key) ==
    LET o == MemoryStorage_get_value(self, storage, key)
    IN [res |-> IF is_ok(o.res) THEN as_bytes(o.res.val) ELSE Vec_default, st |-> o.st]

Storage_get_raw(self, storage, key) ==
    LET o == MemoryStorage_get_raw_value(self, storage, key)
    IN [res |-> unwrap_or_default(o.res, Vec_default), st |-> o.st]

Storage_put_kv(self, storage, key, val) ==
    LET o == MemoryStorage_put_value(self, storage, key, val)
    IN [res |-> is_ok(o.res), st |-> o.st]

Storage_put_kv_raw(self, storage, key, val) ==
    LET o == MemoryStorage_put_raw_value(self, storage, key, val)
    IN [res |-> is_ok(o.res), st |-> o.st]

Storage_remove(self, storage, key) ==
    LET o == MemoryStorage_remove_value(self, storage, key)
    IN [res |-> is_ok(o.res), st |-> o.st]

\* ------------------------------------------------------------------------
\* vstorage.rs: VStorageEnum (closed enum, static match)
\* ------------------------------------------------------------------------

VStorageEnum_memory == [variant |-> "Memory", s |-> MemoryStorage_new]
VStorageEnum_default == [variant |-> "None"]
VStorageEnum_is_empty(self) == self.variant = "None"

\* the wrapper after the call: the variant keeps its (updated) backend
Enum_after(self, o) == [o EXCEPT !.st = [self EXCEPT !.s = o.st]]

VStorageEnum_get_individual(self, storage, id, iraw) ==
    CASE self.variant = "Memory" ->
            Enum_after(self, MemoryStorage_get_individual(self.s, storage, id, iraw))
      [] self.variant = "None" -> [res |-> NotReady, st |-> self, iraw |-> iraw]

VStorageEnum_get_value(self, storage, key) ==
    CASE self.variant = "Memory" ->
            Enum_after(self, MemoryStorage_get_value(self.s, storage, key))
      [] self.variant = "None" -> [res |-> NotReady, st |-> self]

VStorageEnum_get_raw_value(self, storage, key) ==
    CASE self.variant = "Memory" ->
            Enum_after(self, MemoryStorage_get_raw_value(self.s, storage, key))
      [] self.variant = "None" -> [res |-> NotReady, st |-> self]

\* a put_value whose Memory arm answers like the None arm
VStorageEnum_put_value_unwired(self, storage, key, val) ==
    [res |-> NotReady, st |-> self]

VStorageEnum_put_value(self, storage, key, val) ==
    CASE self.variant = "Memory" ->
            Enum_after(self, MemoryStorage_put_value(self.s, storage, key, val))
      [] self.variant = "None" -> [res |-> NotReady, st |-> self]

VStorageEnum_put_raw_value(self, storage, key, val) ==
    CASE self.variant = "Memory" ->
            Enum_after(self, MemoryStorage_put_raw_value(self.s, storage, key, val))
      [] self.variant = "None" -> [res |-> NotReady, st |-> self]

VStorageEnum_remove_value(self, storage, key) ==
    CASE self.variant = "Memory" ->
            Enum_after(self, MemoryStorage_remove_value(self.s, storage, key))
      [] self.variant = "None" -> [res |-> NotReady, st |-> self]

VStorageEnum_count(self, storage) ==
    CASE self.variant = "Memory" ->
            Enum_after(self, MemoryStorage_count(self.s, storage))
      [] self.variant = "None" -> [res |-> NotReady, st |-> self]

\* ------------------------------------------------------------------------
\* common.rs: trait Storage behind Box<dyn Storage> (dynamic dispatch)
\* ------------------------------------------------------------------------

\* Box::new(MemoryStorage::new()) as Box<dyn Storage>: the object and its vtable
Box_dyn_memory == [vtable |-> "MemoryStorage", obj |-> MemoryStorage_new]

Box_after(b, o) == [o EXCEPT !.st = [b EXCEPT !.obj = o.st]]

dyn_get_individual(b, storage, id, iraw) ==
    CASE b.vtable = "MemoryStorage" ->
            Box_after(b, MemoryStorage_get_individual(b.obj, storage, id, iraw))

dyn_get_value(b, storage, key) ==
    CASE b.vtable = "MemoryStorage" ->
            Box_after(b, MemoryStorage_get_value(b.obj, storage, key))

dyn_get_raw_value(b, storage, key) ==
    CASE b.vtable = "MemoryStorage" ->
            Box_after(b, MemoryStorage_get_raw_value(b.obj, storage, key))

dyn_put_value(b, storage, key, val) ==
    CASE b.vtable = "MemoryStorage" ->
            Box_after(b, MemoryStorage_put_value(b.obj, storage, key, val))

dyn_put_raw_value(b, storage, key, val) ==
    CASE b.vtable = "MemoryStorage" ->
            Box_after(b, MemoryStorage_put_raw_value(b.obj, storage, key, val))

dyn_remove_value(b, storage, key) ==
    CASE b.vtable = "MemoryStorage" ->
            Box_after(b, MemoryStorage_remove_value(b.obj, storage, key))

dyn_count(b, storage) ==
    CASE b.vtable = "MemoryStorage" ->
            Box_after(b, MemoryStorage_count(b.obj, storage))

\* ------------------------------------------------------------------------
\* common.rs: StorageDispatcher; vstorage.rs: its two implementations
\* ------------------------------------------------------------------------

\* A closure |s| op(s, captured ...) is the function from the backend it may be
\* applied to (the one the wrapper holds, if any) to what the call returns.
Held(self) == IF self.storage.tag = "Some" THEN {self.storage.val} ELSE {}

\* with_storage of VStorage and of VStorageGeneric<S>: the operation runs on
\* the backend if there is one, the default value is returned otherwise
with_storage(self, default_value, operation) ==
    IF self.storage.tag = "Some"
    THEN LET o == operation[self.storage.val]
         IN [o EXCEPT !.st = [storage |-> Some(o.st)]]
    ELSE [res |-> default_value, st |-> self]

\* a with_storage_result whose default is success
with_storage_result_ok_default(self, operation) == with_storage(self, Ok(Unit), operation)

with_storage_result(self, operation) == with_storage(self, NotReady, operation)

with_storage_value(self, operation) == with_storage(self, NotReady, operation)

\* the caller's Individual is only touched by the closure
with_iraw(o, iraw) ==
    IF "iraw" \in DOMAIN o THEN o ELSE [res |-> o.res, st |-> o.st, iraw |-> iraw]

\* ------------------------------------------------------------------------
\* vstorage.rs: VStorage (Option<Box<dyn Storage>>)
\* ------------------------------------------------------------------------

VStorage_none == [storage |-> None]
VStorage_new(storage) == [storage |-> Some(storage)]
VStorage_is_empty(self) == self.storage.tag = "None"

VStorage_get_individual_from_storage(self, storage, id, iraw) ==
    with_iraw(with_storage(self, NotReady,
                  [s \in Held(self) |-> dyn_get_individual(s, storage, id, iraw)]), iraw)

VStorage_get_individual(self, id, iraw) ==
    with_iraw(with_storage(self, NotReady,
                  [s \in Held(self) |-> dyn_get_individual(s, "Individuals", id, iraw)]), iraw)

VStorage_get_value(self, storage, id) ==
    with_storage_value(self, [s \in Held(self) |-> dyn_get_value(s, storage, id)])

VStorage_get_raw_value(self, storage, id) ==
    with_storage_value(self, [s \in Held(self) |-> dyn_get_raw_value(s, storage, id)])

VStorage_put_value(self, storage, key, val) ==
    with_storage_result(self, [s \in Held(self) |-> dyn_put_value(s, storage, key, val)])

VStorage_put_raw_value(self, storage, key, val) ==
    with_storage_result(self, [s \in Held(self) |-> dyn_put_raw_value(s, storage, key, val)])

VStorage_remove_value(self, storage, key) ==
    with_storage_result(self, [s \in Held(self) |-> dyn_remove_value(s, storage, key)])

VStorage_count(self, storage) ==
    with_storage_value(self, [s \in Held(self) |-> dyn_count(s, storage)])

\* the deprecated methods of VStorage

VStorage_get_individual_from_db(self, storage, id, iraw) ==
    VStorage_get_individual_from_storage(self, storage, id, iraw)

VStorage_get_v(self, storage, id) ==
    LET o == VStorage_get_value(self, storage, id)
    IN [res |-> CASE o.res.tag = "Ok" -> Some(o.res.val)
                  [] OTHER            -> None,
        st  |-> o.st]

VStorage_get_raw(self, storage, id) ==
    LET o == VStorage_get_raw_value(self, storage, id)
    IN [res |-> unwrap_or_default(o.res, Vec_default), st |-> o.st]

VStorage_put_kv(self, storage, key, val) ==
    LET o == VStorage_put_value(self, storage, key, val)
    IN [res |-> is_ok(o.res), st |-> o.st]

VStorage_put_kv_raw(self, storage, key, val) ==
    LET o == VStorage_put_raw_value(self, storage, key, val)
    IN [res |-> is_ok(o.res), st |-> o.st]

VStorage_remove(self, storage, key) ==
    LET o == VStorage_remove_value(self, storage, key)
    IN [res |-> is_ok(o.res), st |-> o.st]

\* ------------------------------------------------------------------------
\* vstorage.rs: VStorageGeneric<S>, here VMemoryStorage (S = MemoryStorage)
\* ------------------------------------------------------------------------

VStorageGeneric_none == [storage |-> None]
VStorageGeneric_new(storage) == [storage |-> Some(storage)]
VStorageGeneric_is_empty(self) == self.storage.tag = "None"

VStorageGeneric_get_individual_from_storage(self, storage, id, iraw) ==
    with_iraw(with_storage(self, NotReady,
                  [s \in Held(self) |-> MemoryStorage_get_individual(s, storage, id, iraw)]), iraw)

VStorageGeneric_get_individual(self, id, iraw) ==
    with_iraw(with_storage(self, NotReady,
                  [s \in Held(self) |-> MemoryStorage_get_individual(s, "Individuals", id, iraw)]), iraw)

VStorageGeneric_get_value(self, storage, id) ==
    with_storage_value(self, [s \in Held(self) |-> MemoryStorage_get_value(s, storage, id)])

VStorageGeneric_get_raw_value(self, storage, id) ==
    with_storage_value(self, [s \in Held(self) |-> MemoryStorage_get_raw_value(s, storage, id)])

VStorageGeneric_put_value(self, storage, key, val) ==
    with_storage_result(self, [s \in Held(self) |-> MemoryStorage_put_value(s, storage, key, val)])

VStorageGeneric_put_raw_value(self, storage, key, val) ==
    with_storage_result(self, [s \in Held(self) |-> MemoryStorage_put_raw_value(s, storage, key, val)])

VStorageGeneric_remove_value(self, storage, key) ==
    with_storage_result(self, [s \in Held(self) |-> MemoryStorage_remove_value(s, storage, key)])

VStorageGeneric_count(self, storage) ==
    with_storage_value(self, [s \in Held(self) |-> MemoryStorage_count(s, storage)])

\* ------------------------------------------------------------------------
\* lmdb_storage.rs: the environment registry and LmdbInstance
\* ------------------------------------------------------------------------

\* path strings handed to LmdbInstance::new; the first two name one directory
Paths == {"/db", "/db/", "/x"}

\* Path::new(path): the directory a path string denotes
Canonical(path) ==
    CASE path = "/db"  -> "/db"
      [] path = "/db/" -> "/db"
      [] path = "/x"   -> "/x"

Dirs == {Canonical(p) : p \in Paths}

\* keys and payloads handed to an instance
EnvKeys == {"k"}
EnvVals == {<<255>>, <<195, 169>>}

\* what the engine can answer to one read attempt: all calls succeed, read_txn
\* fails, open_database fails, db.get fails
ReadFaults == {"ok", "txn_err", "open_err", "get_err"}

\* what the engine can answer to one write: all calls succeed, write_txn fails,
\* open_database fails, db.put / db.delete fails, commit fails because the map
\* is full, commit fails for another reason
WriteFaults == {"ok", "txn_err", "open_err", "op_err", "map_full", "commit_err"}

\* the unnamed table of a directory: whether create_database was committed,
\* and its key/value pairs
EmptyTable == [created |-> FALSE, data |-> HashMap_new]

\* FromMdbValue::from_mdb_value for T = Vec<u8> and T = String
from_mdb_value(T, bytes) ==
    CASE T = "Vec<u8>" -> Some(bytes)
      [] T = "String"  -> LET d == from_utf8(bytes)
                          IN IF d.ok THEN Some(d.s) ELSE None

\* a lookup that never finds an entry
envs_map_get_miss(envs_map, path) == None

\* HashMap<String, Arc<Env>>::get(path) on the registry
envs_map_get(envs_map, path) ==
    IF path \in DOMAIN envs_map THEN Some(envs_map[path]) ELSE None

\* the registry lock can be taken when no thread holds it (0: free)
Mutex_lock_unguarded(owner) == TRUE

Mutex_lock(owner) == owner = 0

\* the struct LmdbInstance::new returns
LmdbInstance_new(path, env) ==
    [max_read_counter |-> 1000, path |-> path, env |-> env, read_counter |-> 0]

\* an initialisation of the table that a ReadOnly instance leaves out
init_database_unless_read_only(t, mode, committed) ==
    IF committed /\ mode = "ReadWrite" THEN [t EXCEPT !.created = TRUE] ELSE t

\* LmdbInstance::new after get_or_create_env, on the table t of the
\* environment: write_txn, create_database and commit, whose failures are
\* dropped (committed: all three succeeded); _mode is not looked at
init_database(t, mode, committed) ==
    IF committed THEN [t EXCEPT !.created = TRUE] ELSE t

\* LmdbInstance::open: resets the read counter
LmdbInstance_open(self) == [self EXCEPT !.read_counter = 0]

\* a head of the loop body that counts the attempt and never resets
count_attempt_unbounded(self) == [self EXCEPT !.read_counter = self.read_counter + 1]

\* a count_attempt that gives up the environment handle when it resets the
\* counter, for the instance to be opened again
count_attempt_reopening(self) ==
    LET c == self.read_counter + 1
    IN IF c > self.max_read_counter THEN [self EXCEPT !.read_counter = 0, !.env = 0]
       ELSE [self EXCEPT !.read_counter = c]

\* the head of the loop body of get: count the attempt, reset above the maximum
count_attempt(self) ==
    LET c == self.read_counter + 1
    IN [self EXCEPT !.read_counter = IF c > self.max_read_counter THEN 0 ELSE c]

\* the rest of the loop body of get, on table t with engine answer f:
\* [done |-> TRUE, res |-> what get returns] or [done |-> FALSE] (sleep, next attempt)
get_attempt(T, t, key, f) ==
    CASE f = "txn_err"  -> [done |-> FALSE]
      [] f = "open_err" -> [done |-> FALSE]
      [] OTHER ->
           IF ~t.created THEN [done |-> TRUE, res |-> None]
           ELSE IF f = "get_err" THEN [done |-> TRUE, res |-> None]
           ELSE IF key \in DOMAIN t.data
                THEN [done |-> TRUE, res |-> from_mdb_value(T, t.data[key])]
                ELSE [done |-> TRUE, res |-> None]

\* LmdbInstance::get::<T>: the loop `for _it in 0..2`; [res |-> Option<T>,
\* st |-> self after, txns |-> read transactions asked of the engine]
LmdbInstance_get(self, T, t, key, f1, f2) ==
    LET s1 == count_attempt(self)
        a1 == get_attempt(T, t, key, f1)
    IN IF a1.done THEN [res |-> a1.res, st |-> s1, txns |-> 1]
       ELSE LET s2 == count_attempt(s1)
                a2 == get_attempt(T, t, key, f2)
            IN IF a2.done THEN [res |-> a2.res, st |-> s2, txns |-> 2]
               ELSE [res |-> None, st |-> s2, txns |-> 2]

LmdbInstance_get_v(self, t, key, f1, f2) == LmdbInstance_get(self, "String", t, key, f1, f2)

LmdbInstance_get_raw(self, t, key, f1, f2) == LmdbInstance_get(self, "Vec<u8>", t, key, f1, f2)

\* LmdbInstance::get_individual: [res, st, iraw]
LmdbInstance_get_individual(self, t, uri, iraw, f1, f2) ==
    LET o == LmdbInstance_get_raw(self, t, uri, f1, f2)
    IN IF o.res.tag = "Some"
       THEN [res  |-> IF parse_raw_is_ok(o.res.val) THEN Ok(Unit) ELSE UnprocessableEntity,
             st   |-> o.st,
             iraw |-> o.res.val,
             txns |-> o.txns]
       ELSE [res |-> NotFound, st |-> o.st, iraw |-> iraw, txns |-> o.txns]

\* what the engine can answer to one attempt of count: all calls succeed,
\* read_txn fails, open_database fails, db.len fails
CountFaults == {"ok", "txn_err", "open_err", "len_err"}

\* the loop body of count, on table t with engine answer f:
\* [done |-> TRUE, res |-> what count returns] or [done |-> FALSE] (sleep, next attempt)
count_pass(t, f) ==
    CASE f = "txn_err"  -> [done |-> FALSE]
      [] f = "open_err" -> [done |-> FALSE]
      [] OTHER ->
           IF ~t.created THEN [done |-> TRUE, res |-> 0]
           ELSE IF f = "len_err" THEN [done |-> FALSE]
           ELSE [done |-> TRUE, res |-> HashMap_len(t.data)]

\* a count whose loop runs three times
LmdbInstance_count_three(t, f1, f2) ==
    LET a1 == count_pass(t, f1)
    IN IF a1.done THEN [res |-> a1.res, txns |-> 1]
       ELSE LET a2 == count_pass(t, f2)
            IN IF a2.done THEN [res |-> a2.res, txns |-> 2]
               ELSE LET a3 == count_pass(t, f2)
                    IN IF a3.done THEN [res |-> a3.res, txns |-> 3]
                       ELSE [res |-> 0, txns |-> 3]

\* LmdbInstance::count: the loop `for _it in 0..2`; the read counter is not touched
LmdbInstance_count(t, f1, f2) ==
    LET a1 == count_pass(t, f1)
    IN IF a1.done THEN [res |-> a1.res, txns |-> 1]
       ELSE LET a2 == count_pass(t, f2)
            IN IF a2.done THEN [res |-> a2.res, txns |-> 2]
               ELSE [res |-> 0, txns |-> 2]

\* a put_kv_lmdb that does not look at what commit returned
put_kv_lmdb_commit_unchecked(t, key, val, f) ==
    CASE f = "txn_err"  -> [ok |-> FALSE, t |-> t, txns |-> 1]
      [] f = "open_err" -> [ok |-> FALSE, t |-> t, txns |-> 1]
      [] OTHER ->
           IF ~t.created THEN [ok |-> FALSE, t |-> t, txns |-> 1]
           ELSE IF f = "op_err" THEN [ok |-> FALSE, t |-> t, txns |-> 1]
           ELSE IF f \in {"map_full", "commit_err"} THEN [ok |-> TRUE, t |-> t, txns |-> 1]
           ELSE [ok |-> TRUE, t |-> [t EXCEPT !.data = HashMap_insert(t.data, key, val)], txns |-> 1]

\* put_kv_lmdb on table t with engine answer f: [ok |-> the bool, t |-> the table
\* after, txns |-> write transactions asked of the engine]; there is no loop
put_kv_lmdb(t, key, val, f) ==
    CASE f = "txn_err"  -> [ok |-> FALSE, t |-> t, txns |-> 1]
      [] f = "open_err" -> [ok |-> FALSE, t |-> t, txns |-> 1]
      [] OTHER ->
           IF ~t.created THEN [ok |-> FALSE, t |-> t, txns |-> 1]
           ELSE IF f = "op_err" THEN [ok |-> FALSE, t |-> t, txns |-> 1]
           ELSE IF f \in {"map_full", "commit_err"} THEN [ok |-> FALSE, t |-> t, txns |-> 1]
           ELSE [ok |-> TRUE, t |-> [t EXCEPT !.data = HashMap_insert(t.data, key, val)], txns |-> 1]

\* remove_from_lmdb on table t with engine answer f
remove_from_lmdb(t, key, f) ==
    CASE f = "txn_err"  -> [ok |-> FALSE, t |-> t, txns |-> 1]
      [] f = "open_err" -> [ok |-> FALSE, t |-> t, txns |-> 1]
      [] OTHER ->
           IF ~t.created THEN [ok |-> FALSE, t |-> t, txns |-> 1]
           ELSE IF f = "op_err" THEN [ok |-> FALSE, t |-> t, txns |-> 1]
           ELSE IF key \notin DOMAIN t.data THEN [ok |-> FALSE, t |-> t, txns |-> 1]
           ELSE IF f \in {"map_full", "commit_err"} THEN [ok |-> FALSE, t |-> t, txns |-> 1]
           ELSE [ok |-> TRUE, t |-> [t EXCEPT !.data = HashMap_remove(t.data, key)], txns |-> 1]

\* LmdbInstance::put / LmdbInstance::remove
LmdbInstance_put(t, key, val, f) == put_kv_lmdb(t, key, val, f)

LmdbInstance_remove(t, key, f) == remove_from_lmdb(t, key, f)

\* what the engine can answer to begin_ro_txn: a transaction, or an error
BeginFaults == {"ok", "txn_err"}

\* LmdbInstance::begin_ro_txn on an environment whose table is t: Ok(txn) or
\* Err. A read transaction of the engine sees the table as it was committed
\* when the transaction began, whatever commits afterwards.
begin_ro_txn(t, f) ==
    IF f = "txn_err" THEN [ok |-> FALSE] ELSE [ok |-> TRUE, txn |-> [snapshot |-> t]]

\* what the engine can answer inside get_with_txn: all calls succeed,
\* open_database fails, db.get fails
TxnReadFaults == {"ok", "open_err", "get_err"}

\* a get_with_txn that opens a transaction of its own and reads the table as
\* committed now
get_with_txn_latest(t, txn, key, f) ==
    CASE f = "open_err" -> None
      [] OTHER ->
           IF ~t.created THEN None
           ELSE IF f = "get_err" THEN None
           ELSE IF key \in DOMAIN t.data THEN Some(t.data[key]) ELSE None

\* LmdbInstance::get_with_txn(txn, key) on an environment whose table is t now:
\* Some(Cow::Borrowed(val)), the bytes in the mapped page, or None
get_with_txn(t, txn, key, f) ==
    CASE f = "open_err" -> None
      [] OTHER ->
           IF ~txn.snapshot.created THEN None
           ELSE IF f = "get_err" THEN None
           ELSE IF key \in DOMAIN txn.snapshot.data
                THEN Some(txn.snapshot.data[key])
                ELSE None


\* StorageMode (common.rs)
StorageMode == {"ReadOnly", "ReadWrite"}

\* LMDBStorage::new: one instance per namespace directory under db_path; mode is
\* handed to LmdbInstance::new, which does not use it, and the reopen threshold
\* argument is not used. e: the handles get_or_create_env returns for the three
\* paths
LMDBStorage_new(db_path, mode, max_read_counter_reopen, e) ==
    [individuals_db |-> LmdbInstance_new(db_path \o "/lmdb-individuals/", e[1]),
     tickets_db     |-> LmdbInstance_new(db_path \o "/lmdb-tickets/", e[2]),
     az_db          |-> LmdbInstance_new(db_path \o "/acl-indexes/", e[3])]

\* the struct MdbxInstance::new returns
MdbxInstance_new(path, db) ==
    [max_read_counter |-> 1000, path |-> path, db |-> db, read_counter |-> 0]

\* MDBXStorage::new: one instance per namespace directory under db_path; e: the
\* handles get_or_create_db returns for the three paths
MDBXStorage_new(db_path, mode, max_read_counter_reopen, e) ==
    [individuals_db |-> MdbxInstance_new(db_path \o "/mdbx-individuals/", e[1]),
     tickets_db     |-> MdbxInstance_new(db_path \o "/mdbx-tickets/", e[2]),
     az_db          |-> MdbxInstance_new(db_path \o "/acl-indexes/", e[3])]

\* LMDBStorage::get_db_instance: the field the namespace selects
get_db_instance(storage) ==
    CASE storage = "Individuals" -> "individuals_db"
      [] storage = "Tickets"     -> "tickets_db"
      [] storage = "Az"          -> "az_db"

\* impl Storage for LMDBStorage. self: the struct, tb: the table of each
\* environment handle; [res |-> StorageResult, st |-> self after, tb |-> tables
\* after, txns |-> transactions asked of the engine]
LMDBStorage_get_individual(self, tb, storage, uri, iraw, f1, f2) ==
    LET d == get_db_instance(storage)
        o == LmdbInstance_get_individual(self[d], tb[self[d].env], uri, iraw, f1, f2)
    IN [res |-> o.res, iraw |-> o.iraw, st |-> [self EXCEPT ![d] = o.st], tb |-> tb,
        txns |-> o.txns]

LMDBStorage_get_value(self, tb, storage, key, f1, f2) ==
    LET d == get_db_instance(storage)
        o == LmdbInstance_get_v(self[d], tb[self[d].env], key, f1, f2)
    IN [res  |-> IF o.res.tag = "Some" THEN Ok(o.res.val) ELSE NotFound,
        st   |-> [self EXCEPT ![d] = o.st], tb |-> tb, txns |-> o.txns]

LMDBStorage_get_raw_value(self, tb, storage, key, f1, f2) ==
    LET d == get_db_instance(storage)
        o == LmdbInstance_get_raw(self[d], tb[self[d].env], key, f1, f2)
    IN [res  |-> IF o.res.tag = "Some" THEN Ok(o.res.val) ELSE NotFound,
        st   |-> [self EXCEPT ![d] = o.st], tb |-> tb, txns |-> o.txns]

LMDBStorage_put_value(self, tb, storage, key, val, f) ==
    LET d == get_db_instance(storage)
        o == put_kv_lmdb(tb[self[d].env], key, as_bytes(val), f)
    IN [res  |-> IF o.ok THEN Ok(Unit) ELSE Error("Failed to put value"),
        st   |-> self, tb |-> [tb EXCEPT ![self[d].env] = o.t], txns |-> o.txns]

LMDBStorage_put_raw_value(self, tb, storage, key, val, f) ==
    LET d == get_db_instance(storage)
        o == put_kv_lmdb(tb[self[d].env], key, val, f)
    IN [res  |-> IF o.ok THEN Ok(Unit) ELSE Error("Failed to put raw value"),
        st   |-> self, tb |-> [tb EXCEPT ![self[d].env] = o.t], txns |-> o.txns]

\* a remove_value that reports a failure of the engine as an error
LMDBStorage_remove_value_checked(self, tb, storage, key, f) ==
    LET d == get_db_instance(storage)
        t == tb[self[d].env]
        o == remove_from_lmdb(t, key, f)
    IN [res  |-> IF o.ok THEN Ok(Unit)
                 ELSE IF f = "ok" \/ (f = "commit_err" /\ key \notin DOMAIN t.data)
                      THEN NotFound
                      ELSE Error("Failed to remove value"),
        st   |-> self, tb |-> [tb EXCEPT ![self[d].env] = o.t], txns |-> o.txns]

LMDBStorage_remove_value(self, tb, storage, key, f) ==
    LET d == get_db_instance(storage)
        o == remove_from_lmdb(tb[self[d].env], key, f)
    IN [res  |-> IF o.ok THEN Ok(Unit) ELSE NotFound,
        st   |-> self, tb |-> [tb EXCEPT ![self[d].env] = o.t], txns |-> o.txns]

\* a count that reports a failing engine as an error
LMDBStorage_count_checked(self, tb, storage, f1, f2) ==
    LET d == get_db_instance(storage)
        t == tb[self[d].env]
        o == LmdbInstance_count(t, f1, f2)
        failed == o.txns = 2 /\ ~count_pass(t, f2).done
    IN [res  |-> IF failed THEN Error("Failed to count") ELSE Ok(o.res),
        st |-> self, tb |-> tb, txns |-> o.txns]

LMDBStorage_count(self, tb, storage, f1, f2) ==
    LET d == get_db_instance(storage)
        o == LmdbInstance_count(tb[self[d].env], f1, f2)
    IN [res |-> Ok(o.res), st |-> self, tb |-> tb, txns |-> o.txns]

\* ------------------------------------------------------------------------
\* StorageROClient (remote_storage_client.rs). The socket is the peer's side of
\* the model: what dial, send and recv answer is an input of each call, and
\* io lists the socket operations a call performed, in order, with whether
\* each succeeded.
\* ------------------------------------------------------------------------

\* addresses a client is constructed with: Default::default() and a real one
Addrs == {"", "tcp://sm"}

\* the reply b"[]" and three other replies: one that parses, one that does
\* not, and one that is five bytes followed by bytes that parse
EmptyReply == <<91, 93>>

Replies == {EmptyReply, <<195, 169>>, <<255>>, <<0, 0, 0, 0, 0, 195, 169>>}

\* Result<Message, Error> of soc.recv()
RecvErr == [ok |-> FALSE]

RecvOk(msg) == [ok |-> TRUE, msg |-> msg]

RecvResults == {RecvErr} \cup {RecvOk(m) : m \in Replies}

\* StorageROClient::new / Default::default: no dial
StorageROClient_new(addr) == [addr |-> addr, is_ready |-> FALSE]

\* StorageROClient::connect: [ret |-> the bool, st |-> self after, io]
connect(self, dial) ==
    [ret |-> dial, st |-> [self EXCEPT !.is_ready = dial],
     io |-> <<[op |-> "dial", addr |-> self.addr, ok |-> dial]>>]

\* a request with a tag of its own for each namespace
request_tag_per_namespace(db_id, id) ==
    CASE db_id = "Tickets" -> "t," \o id
      [] db_id = "Az"      -> "a," \o id
      [] OTHER             -> "i," \o id

\* the request message of get_individual_from_db
request(db_id, id) == IF db_id = "Tickets" THEN "t," \o id ELSE "i," \o id

\* a send_and_recv that drops the first five bytes of a reply before set_raw
send_and_recv_skipping_header(s, io, db_id, id, iraw, send, recv) ==
    LET io_s == Append(io, [op |-> "send", msg |-> request(db_id, id), ok |-> send])
        io_r == Append(io_s, [op |-> "recv", ok |-> recv.ok, got |-> recv])
    IN IF ~send THEN [res |-> NotReady, st |-> s, iraw |-> iraw, io |-> io_s]
       ELSE IF ~recv.ok THEN [res |-> NotReady, st |-> s, iraw |-> iraw, io |-> io_r]
       ELSE IF recv.msg = EmptyReply
            THEN [res |-> NotFound, st |-> s, iraw |-> iraw, io |-> io_r]
       ELSE LET raw == SubSeq(recv.msg, 6, Len(recv.msg))
            IN [res  |-> IF parse_raw_is_ok(raw) THEN Ok(Unit) ELSE UnprocessableEntity,
                st   |-> s, iraw |-> raw, io |-> io_r]

\* the part of get_individual_from_db after the readiness test, on the client
\* s and with the socket operations io already performed
send_and_recv(s, io, db_id, id, iraw, send, recv) ==
    LET io_s == Append(io, [op |-> "send", msg |-> request(db_id, id), ok |-> send])
        io_r == Append(io_s, [op |-> "recv", ok |-> recv.ok, got |-> recv])
    IN IF ~send THEN [res |-> NotReady, st |-> s, iraw |-> iraw, io |-> io_s]
       ELSE IF ~recv.ok THEN [res |-> NotReady, st |-> s, iraw |-> iraw, io |-> io_r]
       ELSE IF recv.msg = EmptyReply
            THEN [res |-> NotFound, st |-> s, iraw |-> iraw, io |-> io_r]
       ELSE [res  |-> IF parse_raw_is_ok(recv.msg) THEN Ok(Unit) ELSE UnprocessableEntity,
             st   |-> s, iraw |-> recv.msg, io |-> io_r]

\* a get_individual_from_db that dials on every call
get_individual_from_db_eager(self, db_id, id, iraw, dial, send, recv) ==
    LET c == connect(self, dial)
    IN IF ~c.ret THEN [res |-> NotReady, st |-> c.st, iraw |-> iraw, io |-> c.io]
       ELSE send_and_recv(c.st, c.io, db_id, id, iraw, send, recv)

\* StorageROClient::get_individual_from_db: [res, st |-> self after, iraw, io];
\* `!self.is_ready && !self.connect()` dials only when is_ready is false
get_individual_from_db(self, db_id, id, iraw, dial, send, recv) ==
    IF ~self.is_ready
    THEN LET c == connect(self, dial)
         IN IF ~c.ret THEN [res |-> NotReady, st |-> c.st, iraw |-> iraw, io |-> c.io]
            ELSE send_and_recv(c.st, c.io, db_id, id, iraw, send, recv)
    ELSE send_and_recv(self, << >>, db_id, id, iraw, send, recv)

\* impl Storage for StorageROClient
StorageROClient_get_individual(self, storage, id, iraw, dial, send, recv) ==
    get_individual_from_db(self, storage, id, iraw, dial, send, recv)

StorageROClient_get_value(self, storage, key) ==
    [res |-> Error("Remote storage does not support get_value"), st |-> self, io |-> << >>]

StorageROClient_get_raw_value(self, storage, key) ==
    [res |-> Error("Remote storage does not support get_raw_value"), st |-> self, io |-> << >>]

\* a put_value that dials before it refuses
StorageROClient_put_value_dialing(self, storage, key, val) ==
    [res |-> Error("Remote storage is read-only"), st |-> connect(self, TRUE).st,
     io |-> connect(self, TRUE).io]

StorageROClient_put_value(self, storage, key, val) ==
    [res |-> Error("Remote storage is read-only"), st |-> self, io |-> << >>]

StorageROClient_put_raw_value(self, storage, key, val) ==
    [res |-> Error("Remote storage is read-only"), st |-> self, io |-> << >>]

StorageROClient_remove_value(self, storage, key) ==
    [res |-> Error("Remote storage is read-only"), st |-> self, io |-> << >>]

StorageROClient_count(self, storage) ==
    [res |-> Error("Remote storage does not support count"), st |-> self, io |-> << >>]

\* ------------------------------------------------------------------------
\* tt_storage.rs: TTStorage, the reply of the Tarantool select as an input
\* ------------------------------------------------------------------------

\* the space a namespace is kept in: TICKETS_SPACE_ID, AZ_SPACE_ID,
\* INDIVIDUALS_SPACE_ID
space_of(storage) ==
    IF storage = "Tickets" THEN 513
    ELSE IF storage = "Az" THEN 514
    ELSE 512

\* &v.data[5..]: the bytes after the first five; a range that starts past the
\* end of the slice panics
slice_from_5(data) ==
    IF 5 > Len(data) THEN [ok |-> FALSE] ELSE [ok |-> TRUE, s |-> SubSeq(data, 6, Len(data))]

\* impl Storage for TTStorage, reply: what block_on(client.select(..)) returned,
\* [ok |-> TRUE, data |-> v.data] or [ok |-> FALSE]. [res, iraw, space]
TTStorage_get_individual(storage, uri, iraw, reply) ==
    LET space == space_of(storage)
    IN IF reply.ok
       THEN IF reply.data # << >>
            THEN LET raw == slice_from_5(reply.data)
                 IN IF ~raw.ok THEN [res |-> Panic, iraw |-> iraw, space |-> space]
                    ELSE [res |-> IF parse_raw_is_ok(raw.s) THEN Ok(Unit)
                                  ELSE UnprocessableEntity,
                          iraw |-> raw.s, space |-> space]
            ELSE [res |-> NotFound, iraw |-> iraw, space |-> space]
       ELSE [res |-> UnprocessableEntity, iraw |-> iraw, space |-> space]

TTStorage_get_value(storage, key, reply) ==
    LET space == space_of(storage)
    IN IF reply.ok
       THEN LET raw == slice_from_5(reply.data)
            IN IF ~raw.ok THEN [res |-> Panic, space |-> space]
               ELSE LET d == from_utf8(raw.s)
                    IN [res |-> IF d.ok THEN Ok(d.s) ELSE Error("Invalid UTF-8 data"),
                        space |-> space]
       ELSE [res |-> NotFound, space |-> space]

TTStorage_get_raw_value(storage, key, reply) ==
    LET space == space_of(storage)
    IN IF reply.ok
       THEN LET raw == slice_from_5(reply.data)
            IN IF ~raw.ok THEN [res |-> Panic, space |-> space]
               ELSE [res |-> Ok(raw.s), space |-> space]
       ELSE [res |-> NotFound, space |-> space]

\* An LMDBStorage and the tables of its three environments (lmdb_storage.rs)
VARIABLES
    lmdb_storage,       \* the LMDBStorage struct: its three LmdbInstance fields
    lmdb_tables,        \* per environment handle, the unnamed table on disk
    slast,              \* the last Storage call on it and what it returned
    reopen_arg,         \* the max_read_counter_reopen LMDBStorage::new was given
    lmdb_calls          \* Storage calls made so far

lmdb_vars == <<lmdb_storage, lmdb_tables, slast, reopen_arg, lmdb_calls>>

\* A MemoryStorage shared with a thread that can panic (memory_storage.rs)
VARIABLES
    mem,                \* the MemoryStorage struct: its three RwLock<HashMap> fields
    mlast,              \* the last call on it and what it returned
    mem_calls           \* calls made on it so far

memory_vars == <<mem, mlast, mem_calls>>

\* the most calls made on the MemoryStorage
MaxMemoryCalls == 3

\* no such MemoryStorage constructed
MemoryFresh ==
    /\ mem = None
    /\ mlast = [op |-> "none"]
    /\ mem_calls = 0

\* A StorageResult<T> and the combinators applied to it (common.rs)
VARIABLES
    result,             \* the StorageResult value at hand
    result_last         \* the last method called on one, its receiver and what it returned

result_vars == <<result, result_last>>

\* no StorageResult at hand
ResultFresh ==
    /\ result = None
    /\ result_last = [op |-> "none"]

\* One environment read through the zero-copy API (lmdb_storage.rs)
VARIABLES
    zc_table,           \* the default table of the environment, as committed
    ro_txn,             \* the read transaction the caller holds: None or Some(txn)
    zc_last,            \* the last call and what it returned
    zc_written,         \* history: per key, the payload of the last put that returned
                        \* true, None after a remove that returned true or no put
    zc_begun,           \* history: zc_written as it was when ro_txn began
    zc_calls            \* calls made so far

zero_copy_vars == <<zc_table, ro_txn, zc_last, zc_written, zc_begun, zc_calls>>

\* no such environment opened
ZeroCopyFresh ==
    /\ zc_table = None
    /\ ro_txn = None
    /\ zc_last = [op |-> "none"]
    /\ zc_written = None
    /\ zc_begun = None
    /\ zc_calls = 0

\* A StorageBuilder (storage_factory.rs)
VARIABLES
    builder,            \* the StorageBuilder: its config field; None once consumed
    selected,           \* history: the configurations the selectors called so far asked for
    built               \* what the build method that consumed the builder returned

builder_vars == <<builder, selected, built>>

\* no StorageBuilder constructed
BuilderFresh ==
    /\ builder = None
    /\ selected = << >>
    /\ built = None

\* What becomes of the values the constructors returned (lmdb_storage.rs)
VARIABLES
    dropped,            \* the instances (indices into instances) that have been dropped
    mode_arg,           \* the StorageMode given to LMDBStorage::new
    rw_storage,         \* a second LMDBStorage, constructed with ReadWrite in a process
    rw_tables,          \*   of its own, and the tables of its environments
    rw_last             \* the last call on it and its outcome

mode_vars == <<mode_arg, rw_storage, rw_tables, rw_last>>

\* no second LMDBStorage
ModeFresh ==
    /\ mode_arg = "ReadWrite"
    /\ rw_storage = None
    /\ rw_tables = << >>
    /\ rw_last = [op |-> "none"]

\* The calls made on a TTStorage (tt_storage.rs)
VARIABLES
    tt_last,            \* the last call, the reply of the select and the outcome
    tt_calls            \* number of calls made

tt_vars == <<tt_last, tt_calls>>

\* the most calls made on the TTStorage
MaxTTCalls == 2

\* no TTStorage constructed
TTFresh ==
    /\ tt_last = [op |-> "none"]
    /\ tt_calls = 0

\* The two engine registries of one process (lmdb_storage.rs, mdbx_storage.rs)
VARIABLES
    GLOBAL_DBS,         \* the MDBX registry: path string -> handle (index into databases)
    databases,          \* the MDBX databases opened: [path, dir]
    storages,           \* the LMDBStorage and MDBXStorage values constructed
    constructing        \* the ::new in progress: None, or engine, base path and handles so far

layout_vars == <<GLOBAL_DBS, databases, storages, constructing>>

\* the most storages constructed
MaxStorages == 2

\* empty MDBX registry, no storage
LayoutFresh ==
    /\ GLOBAL_DBS = HashMap_new
    /\ databases = << >>
    /\ storages = << >>
    /\ constructing = None

registry_vars == <<dropped, mode_vars, tt_vars, layout_vars>>

\* nothing dropped, no second LMDBStorage, no TTStorage, no MDBXStorage
RegistryFresh ==
    /\ dropped = {}
    /\ ModeFresh
    /\ TTFresh
    /\ LayoutFresh

aux_vars == <<memory_vars, result_vars, zero_copy_vars, builder_vars, registry_vars>>

AuxFresh == MemoryFresh /\ ResultFresh /\ ZeroCopyFresh /\ BuilderFresh /\ RegistryFresh

\* A StorageROClient (remote_storage_client.rs)
VARIABLES
    client,             \* the StorageROClient struct: addr, is_ready
    rlast,              \* the last call on it: its arguments, what it returned and
                        \* the socket operations it performed
    remote_calls        \* calls made on it so far

remote_vars == <<client, rlast, remote_calls>>

backend_vars == <<lmdb_vars, remote_vars, aux_vars>>

\* the most calls made on the client
MaxRemoteCalls == 3

\* no client constructed
RemoteFresh ==
    /\ client = None
    /\ rlast = [op |-> "none"]
    /\ remote_calls = 0

\* the most Storage calls made on the LMDBStorage
MaxStorageCalls == 2

\* no LMDBStorage constructed
LmdbFresh ==
    /\ lmdb_storage = None
    /\ lmdb_tables = << >>
    /\ slast = [op |-> "none"]
    /\ reopen_arg = None
    /\ lmdb_calls = 0

BackendsFresh == LmdbFresh /\ RemoteFresh /\ AuxFresh

\* ------------------------------------------------------------------------
\* The three dispatch wrappers driven in lockstep
\* (vstorage.rs test_unified_api_consistency, tests/integration_tests.rs)
\* ------------------------------------------------------------------------
VARIABLES
    dynamic_storage,    \* VStorage
    generic_storage,    \* VStorageGeneric<MemoryStorage>
    enum_storage,       \* VStorageEnum
    last,               \* the last call: its name and what each wrapper returned
    written             \* history: per wrapper, namespace and key, the last put that
                        \* returned Ok and was not followed by a remove that returned Ok

dispatch_vars == <<dynamic_storage, generic_storage, enum_storage, last, written>>

\* The process-wide registry of environments, the threads constructing
\* instances, the instances and the tables on disk (lmdb_storage.rs)
VARIABLES
    GLOBAL_ENVS,        \* the registry map: path string -> environment handle
    envs_lock,          \* the thread that holds the registry Mutex, 0 when free
    environments,       \* the environments opened so far; a handle is an index
    tables,             \* per directory, the unnamed table on disk
    pc,                 \* per thread, where it is in LmdbInstance::new
    path_arg,           \* per thread, the path it was called with
    env_local,          \* per thread, the handle get_or_create_env holds / returned
    instances,          \* the LmdbInstance values constructed so far
    elast,              \* the last call on an instance and what it returned
    opened,             \* history: per path string, the successful opens
    inserted,           \* history: per path string, the registry inserts
    last_write,         \* history: per directory and key, the last put or remove
                        \* that returned true, and the instance it went through
    open_failures,      \* failed opens so far
    calls               \* calls on instances so far

env_vars == <<GLOBAL_ENVS, envs_lock, environments, tables, pc, path_arg, env_local,
              instances, elast, opened, inserted, last_write, open_failures, calls>>

Threads == {1, 2}

\* the most instances constructed, opens failed and calls made on instances
MaxInstances == 3
MaxOpenFailures == 1
MaxCalls == 3

\* the process before any LmdbInstance::new
EnvFresh ==
    /\ GLOBAL_ENVS = HashMap_new
    /\ envs_lock = 0
    /\ environments = << >>
    /\ tables = [d \in Dirs |-> EmptyTable]
    /\ pc = [t \in Threads |-> "idle"]
    /\ path_arg = [t \in Threads |-> "/db"]
    /\ env_local = [t \in Threads |-> 0]
    /\ instances = << >>
    /\ elast = [op |-> "none"]
    /\ opened = [p \in Paths |-> 0]
    /\ inserted = [p \in Paths |-> 0]
    /\ last_write = [d \in Dirs |-> [k \in EnvKeys |-> None]]
    /\ open_failures = 0
    /\ calls = 0

Wrappers == {"dynamic", "generic", "enum"}

\* the most keys the lockstep run keeps stored at a time, over all namespaces
MaxStored == 3

\* the Individual the caller hands to get_individual: one that already holds bytes
IrawVals == {<<1>>}

\* what the caller sees of a call
Out(o) == IF "iraw" \in DOMAIN o THEN [res |-> o.res, iraw |-> o.iraw] ELSE [res |-> o.res]

NothingWritten == [w \in Wrappers |-> [ns \in StorageId |-> [k \in Keys |-> None]]]

Stored == {c \in StorageId \X Keys : \E w \in Wrappers : written[w][c[1]][c[2]] # None}

Lockstep(name, od, og, oe) ==
    /\ dynamic_storage' = od.st
    /\ generic_storage' = og.st
    /\ enum_storage' = oe.st
    /\ last' = [op |-> name,
                out |-> [dynamic |-> Out(od), generic |-> Out(og), enum |-> Out(oe)]]
    /\ UNCHANGED <<env_vars, backend_vars>>

\* history after a put (entry = Some(..)) or a remove (entry = None) on (ns, k)
Record(ns, k, entry) ==
    written' = [w \in Wrappers |->
                   IF is_ok(last'.out[w].res)
                   THEN [written[w] EXCEPT ![ns][k] = entry]
                   ELSE written[w]]

DispatchInit ==
    /\ \E backend \in {"memory", "none"} :
         IF backend = "memory"
         THEN /\ dynamic_storage = VStorage_new(Box_dyn_memory)
              /\ generic_storage = VStorageGeneric_new(MemoryStorage_new)
              /\ enum_storage = VStorageEnum_memory
         ELSE /\ dynamic_storage = VStorage_none
              /\ generic_storage = VStorageGeneric_none
              /\ enum_storage = VStorageEnum_default
    /\ last = [op |-> "new", out |-> [w \in Wrappers |-> [res |-> Ok(Unit)]]]
    /\ written = NothingWritten
    /\ EnvFresh
    /\ BackendsFresh

GetIndividual(ns, k, iraw) ==
    /\ Lockstep("get_individual",
                VStorage_get_individual_from_storage(dynamic_storage, ns, k, iraw),
                VStorageGeneric_get_individual_from_storage(generic_storage, ns, k, iraw),
                VStorageEnum_get_individual(enum_storage, ns, k, iraw))
    /\ UNCHANGED written

\* VStorage::get_individual(id, iraw) reads the Individuals namespace
GetIndividualDefault(k, iraw) ==
    /\ Lockstep("get_individual",
                VStorage_get_individual(dynamic_storage, k, iraw),
                VStorageGeneric_get_individual(generic_storage, k, iraw),
                VStorageEnum_get_individual(enum_storage, "Individuals", k, iraw))
    /\ UNCHANGED written

GetValue(ns, k) ==
    /\ Lockstep("get_value",
                VStorage_get_value(dynamic_storage, ns, k),
                VStorageGeneric_get_value(generic_storage, ns, k),
                VStorageEnum_get_value(enum_storage, ns, k))
    /\ UNCHANGED written

GetRawValue(ns, k) ==
    /\ Lockstep("get_raw_value",
                VStorage_get_raw_value(dynamic_storage, ns, k),
                VStorageGeneric_get_raw_value(generic_storage, ns, k),
                VStorageEnum_get_raw_value(enum_storage, ns, k))
    /\ UNCHANGED written

PutValue(ns, k, v) ==
    /\ <<ns, k>> \in Stored \/ Cardinality(Stored) < MaxStored
    /\ Lockstep("put_value",
                VStorage_put_value(dynamic_storage, ns, k, v),
                VStorageGeneric_put_value(generic_storage, ns, k, v),
                VStorageEnum_put_value(enum_storage, ns, k, v))
    /\ Record(ns, k, Some([api |-> "put_value", val |-> v]))

PutRawValue(ns, k, v) ==
    /\ <<ns, k>> \in Stored \/ Cardinality(Stored) < MaxStored
    /\ Lockstep("put_raw_value",
                VStorage_put_raw_value(dynamic_storage, ns, k, v),
                VStorageGeneric_put_raw_value(generic_storage, ns, k, v),
                VStorageEnum_put_raw_value(enum_storage, ns, k, v))
    /\ Record(ns, k, Some([api |-> "put_raw_value", val |-> v]))

RemoveValue(ns, k) ==
    /\ Lockstep("remove_value",
                VStorage_remove_value(dynamic_storage, ns, k),
                VStorageGeneric_remove_value(generic_storage, ns, k),
                VStorageEnum_remove_value(enum_storage, ns, k))
    /\ Record(ns, k, None)

Count(ns) ==
    /\ Lockstep("count",
                VStorage_count(dynamic_storage, ns),
                VStorageGeneric_count(generic_storage, ns),
                VStorageEnum_count(enum_storage, ns))
    /\ UNCHANGED written

DispatchNext ==
    \/ \E ns \in StorageId, k \in Keys, iraw \in IrawVals : GetIndividual(ns, k, iraw)
    \/ \E k \in Keys, iraw \in IrawVals : GetIndividualDefault(k, iraw)
    \/ \E ns \in StorageId, k \in Keys : GetValue(ns, k)
    \/ \E ns \in StorageId, k \in Keys : GetRawValue(ns, k)
    \/ \E ns \in StorageId, k \in Keys, v \in StrVals : PutValue(ns, k, v)
    \/ \E ns \in StorageId, k \in Keys, v \in RawVals : PutRawValue(ns, k, v)
    \/ \E ns \in StorageId, k \in Keys : RemoveValue(ns, k)
    \/ \E ns \in StorageId : Count(ns)

\* ------------------------------------------------------------------------
\* Threads constructing LmdbInstances and calling them
\* (lmdb_storage.rs get_or_create_env, LmdbInstance)
\* ------------------------------------------------------------------------

\* the table behind an instance: the one in the directory of its environment
TableOf(self) == tables[environments[self.env].dir]

\* constructor calls begun: instances built and threads inside LmdbInstance::new
Started == Len(instances) + Cardinality({t \in Threads : pc[t] # "idle"})

EnvInit ==
    /\ EnvFresh
    /\ BackendsFresh
    /\ dynamic_storage = VStorage_none
    /\ generic_storage = VStorageGeneric_none
    /\ enum_storage = VStorageEnum_default
    /\ last = [op |-> "new", out |-> [w \in Wrappers |-> [res |-> Ok(Unit)]]]
    /\ written = NothingWritten

\* a thread calls LmdbInstance::new(path, _mode)
CallNew(t, path) ==
    /\ pc[t] = "idle"
    /\ Started < MaxInstances
    /\ pc' = [pc EXCEPT ![t] = "lock"]
    /\ path_arg' = [path_arg EXCEPT ![t] = path]
    /\ UNCHANGED <<GLOBAL_ENVS, envs_lock, environments, tables, env_local, instances,
                   elast, opened, inserted, last_write, open_failures, calls>>
    /\ UNCHANGED <<dispatch_vars, backend_vars>>

\* get_or_create_env: envs.lock().unwrap()
Lock(t) ==
    /\ pc[t] = "lock"
    /\ Mutex_lock(envs_lock)
    /\ envs_lock' = t
    /\ pc' = [pc EXCEPT ![t] = "lookup"]
    /\ UNCHANGED <<GLOBAL_ENVS, environments, tables, path_arg, env_local, instances,
                   elast, opened, inserted, last_write, open_failures, calls>>
    /\ UNCHANGED <<dispatch_vars, backend_vars>>

\* a lookup that drops the guard on a miss too, so that the environment is
\* opened outside the lock
Lookup_releasing(t) ==
    /\ pc[t] = "lookup"
    /\ LET found == envs_map_get(GLOBAL_ENVS, path_arg[t])
       IN IF found.tag = "Some"
          THEN /\ env_local' = [env_local EXCEPT ![t] = found.val]
               /\ envs_lock' = 0
               /\ pc' = [pc EXCEPT ![t] = "init_db"]
          ELSE /\ pc' = [pc EXCEPT ![t] = "open"]
               /\ envs_lock' = 0
               /\ UNCHANGED env_local
    /\ UNCHANGED <<GLOBAL_ENVS, environments, tables, path_arg, instances,
                   elast, opened, inserted, last_write, open_failures, calls>>
    /\ UNCHANGED <<dispatch_vars, backend_vars>>

\* get_or_create_env: envs_map.get(path); a hit returns the clone and drops the
\* guard, a miss goes on to create_dir_all (its failure is only logged) and open
Lookup(t) ==
    /\ pc[t] = "lookup"
    /\ LET found == envs_map_get(GLOBAL_ENVS, path_arg[t])
       IN IF found.tag = "Some"
          THEN /\ env_local' = [env_local EXCEPT ![t] = found.val]
               /\ envs_lock' = 0
               /\ pc' = [pc EXCEPT ![t] = "init_db"]
          ELSE /\ pc' = [pc EXCEPT ![t] = "open"]
               /\ UNCHANGED <<env_local, envs_lock>>
    /\ UNCHANGED <<GLOBAL_ENVS, environments, tables, path_arg, instances,
                   elast, opened, inserted, last_write, open_failures, calls>>
    /\ UNCHANGED <<dispatch_vars, backend_vars>>

\* an open loop that gives up after a failed open and goes on with the handle
\* it has
Open_gives_up(t, ok) ==
    /\ pc[t] = "open"
    /\ IF ok
       THEN /\ environments' = Append(environments,
                                      [path |-> path_arg[t], dir |-> Canonical(path_arg[t])])
            /\ env_local' = [env_local EXCEPT ![t] = Len(environments) + 1]
            /\ opened' = [opened EXCEPT ![path_arg[t]] = @ + 1]
            /\ pc' = [pc EXCEPT ![t] = "insert"]
            /\ UNCHANGED open_failures
       ELSE /\ open_failures < MaxOpenFailures
            /\ open_failures' = open_failures + 1
            /\ pc' = [pc EXCEPT ![t] = "insert"]
            /\ UNCHANGED <<environments, env_local, opened>>
    /\ UNCHANGED <<GLOBAL_ENVS, envs_lock, tables, path_arg, instances,
                   elast, inserted, last_write, calls>>
    /\ UNCHANGED <<dispatch_vars, backend_vars>>

\* get_or_create_env: one turn of the open loop; the engine answers Ok or Err
Open(t, ok) ==
    /\ pc[t] = "open"
    /\ IF ok
       THEN /\ environments' = Append(environments,
                                      [path |-> path_arg[t], dir |-> Canonical(path_arg[t])])
            /\ env_local' = [env_local EXCEPT ![t] = Len(environments) + 1]
            /\ opened' = [opened EXCEPT ![path_arg[t]] = @ + 1]
            /\ pc' = [pc EXCEPT ![t] = "insert"]
            /\ UNCHANGED open_failures
       ELSE /\ open_failures < MaxOpenFailures
            /\ open_failures' = open_failures + 1
            /\ UNCHANGED <<environments, env_local, opened, pc>>
    /\ UNCHANGED <<GLOBAL_ENVS, envs_lock, tables, path_arg, instances,
                   elast, inserted, last_write, calls>>
    /\ UNCHANGED <<dispatch_vars, backend_vars>>

\* get_or_create_env: envs_map.insert(path.to_string(), env.clone()); return env
Insert(t) ==
    /\ pc[t] = "insert"
    /\ GLOBAL_ENVS' = HashMap_insert(GLOBAL_ENVS, path_arg[t], env_local[t])
    /\ inserted' = [inserted EXCEPT ![path_arg[t]] = @ + 1]
    /\ envs_lock' = IF envs_lock = t THEN 0 ELSE envs_lock
    /\ pc' = [pc EXCEPT ![t] = "init_db"]
    /\ UNCHANGED <<environments, tables, path_arg, env_local, instances,
                   elast, opened, last_write, open_failures, calls>>
    /\ UNCHANGED <<dispatch_vars, backend_vars>>

\* LmdbInstance::new after get_or_create_env: write_txn, create_database and
\* commit, each allowed to fail silently; then the struct
InitDb(t, committed) ==
    /\ pc[t] = "init_db"
    /\ LET dir == environments[env_local[t]].dir
       IN tables' = IF committed THEN [tables EXCEPT ![dir].created = TRUE] ELSE tables
    /\ instances' = Append(instances, LmdbInstance_new(path_arg[t], env_local[t]))
    /\ pc' = [pc EXCEPT ![t] = "idle"]
    /\ UNCHANGED <<GLOBAL_ENVS, envs_lock, environments, path_arg, env_local,
                   elast, opened, inserted, last_write, open_failures, calls>>
    /\ UNCHANGED <<dispatch_vars, backend_vars>>

\* the engine answers a call consumed: the second only after a failed first
Consumed(f1, f2) == IF f1 \in {"txn_err", "open_err"} THEN <<f1, f2>> ELSE <<f1>>

\* instance.get::<T>(key)
InstGet(i, T, key, f1, f2) ==
    /\ calls < MaxCalls
    /\ LET o == LmdbInstance_get(instances[i], T, TableOf(instances[i]), key, f1, f2)
       IN /\ instances' = [instances EXCEPT ![i] = o.st]
          /\ elast' = [op |-> "get", T |-> T, inst |-> i, key |-> key, res |-> o.res,
                       faults |-> Consumed(f1, f2), txns |-> o.txns]
    /\ calls' = calls + 1
    /\ UNCHANGED <<GLOBAL_ENVS, envs_lock, environments, tables, pc, path_arg, env_local,
                   opened, inserted, last_write, open_failures>>
    /\ UNCHANGED <<dispatch_vars, backend_vars>>

\* instance.get_individual(uri, &mut iraw)
InstGetIndividual(i, uri, iraw, f1, f2) ==
    /\ calls < MaxCalls
    /\ LET o == LmdbInstance_get_individual(instances[i], TableOf(instances[i]),
                                            uri, iraw, f1, f2)
       IN /\ instances' = [instances EXCEPT ![i] = o.st]
          /\ elast' = [op |-> "get_individual", inst |-> i, key |-> uri, res |-> o.res,
                       iraw |-> o.iraw, faults |-> Consumed(f1, f2), txns |-> o.txns]
    /\ calls' = calls + 1
    /\ UNCHANGED <<GLOBAL_ENVS, envs_lock, environments, tables, pc, path_arg, env_local,
                   opened, inserted, last_write, open_failures>>
    /\ UNCHANGED <<dispatch_vars, backend_vars>>

\* instance.put(key, val)
InstPut(i, key, val, f) ==
    /\ calls < MaxCalls
    /\ LET dir == environments[instances[i].env].dir
           o == LmdbInstance_put(tables[dir], key, val, f)
       IN /\ tables' = [tables EXCEPT ![dir] = o.t]
          /\ elast' = [op |-> "put", inst |-> i, key |-> key, res |-> o.ok, faults |-> <<f>>,
                       txns |-> o.txns]
          /\ last_write' = IF o.ok
                           THEN [last_write EXCEPT ![dir][key] =
                                    Some([op |-> "put", val |-> val, by |-> i])]
                           ELSE last_write
    /\ calls' = calls + 1
    /\ UNCHANGED <<GLOBAL_ENVS, envs_lock, environments, pc, path_arg, env_local,
                   instances, opened, inserted, open_failures>>
    /\ UNCHANGED <<dispatch_vars, backend_vars>>

\* instance.remove(key)
InstRemove(i, key, f) ==
    /\ calls < MaxCalls
    /\ LET dir == environments[instances[i].env].dir
           o == LmdbInstance_remove(tables[dir], key, f)
       IN /\ tables' = [tables EXCEPT ![dir] = o.t]
          /\ elast' = [op |-> "remove", inst |-> i, key |-> key, res |-> o.ok, faults |-> <<f>>,
                       txns |-> o.txns]
          /\ last_write' = IF o.ok
                           THEN [last_write EXCEPT ![dir][key] =
                                    Some([op |-> "remove", by |-> i])]
                           ELSE last_write
    /\ calls' = calls + 1
    /\ UNCHANGED <<GLOBAL_ENVS, envs_lock, environments, pc, path_arg, env_local,
                   instances, opened, inserted, open_failures>>
    /\ UNCHANGED <<dispatch_vars, backend_vars>>

\* instance.count()
InstCount(i, f1, f2) ==
    /\ calls < MaxCalls
    /\ LET o == LmdbInstance_count(TableOf(instances[i]), f1, f2)
       IN elast' = [op |-> "count", inst |-> i, res |-> o.res, txns |-> o.txns,
                    faults |-> IF o.txns = 2 THEN <<f1, f2>> ELSE <<f1>>]
    /\ calls' = calls + 1
    /\ UNCHANGED <<GLOBAL_ENVS, envs_lock, environments, tables, pc, path_arg, env_local,
                   instances, opened, inserted, last_write, open_failures>>
    /\ UNCHANGED <<dispatch_vars, backend_vars>>

EnvNext ==
    \/ \E t \in Threads, path \in Paths : CallNew(t, path)
    \/ \E t \in Threads : Lock(t)
    \/ \E t \in Threads : Lookup(t)
    \/ \E t \in Threads, ok \in BOOLEAN : Open(t, ok)
    \/ \E t \in Threads : Insert(t)
    \/ \E t \in Threads, committed \in BOOLEAN : InitDb(t, committed)

\* an LmdbInstance goes out of scope (by itself or with the LMDBStorage, Box or
\* wrapper that owns it): its Arc<Env> clone is dropped; neither LmdbInstance
\* nor LMDBStorage implements Drop, and nothing else runs
DropInstance(i) ==
    /\ i \in 1..Len(instances)
    /\ i \notin dropped
    /\ dropped' = dropped \cup {i}
    /\ UNCHANGED <<dispatch_vars, env_vars, lmdb_vars, remote_vars, memory_vars, result_vars,
                   zero_copy_vars, builder_vars, mode_vars, tt_vars, layout_vars>>

\* construction and dropping of instances
RegistryNext ==
    \/ EnvNext
    \/ \E i \in 1..MaxInstances : DropInstance(i)

\* Two components of one process that have each constructed an instance for
\* the directory /db: with the same path string (one registry entry, one
\* environment) or with two spellings of it (two entries, two environments);
\* the create_database of the constructors committed or not.
InstInit ==
    /\ \E second \in {"/db", "/db/"}, committed \in BOOLEAN :
          /\ GLOBAL_ENVS = IF second = "/db" THEN HashMap_insert(HashMap_new, "/db", 1)
                           ELSE HashMap_insert(HashMap_insert(HashMap_new, "/db", 1), second, 2)
          /\ environments = IF second = "/db"
                            THEN <<[path |-> "/db", dir |-> Canonical("/db")]>>
                            ELSE <<[path |-> "/db", dir |-> Canonical("/db")],
                                   [path |-> second, dir |-> Canonical(second)]>>
          /\ instances = <<LmdbInstance_new("/db", 1),
                           LmdbInstance_new(second, IF second = "/db" THEN 1 ELSE 2)>>
          /\ tables = [d \in Dirs |-> IF d = Canonical("/db") /\ committed
                                      THEN [EmptyTable EXCEPT !.created = TRUE]
                                      ELSE EmptyTable]
          /\ opened = [p \in Paths |-> IF p \in {"/db", second} THEN 1 ELSE 0]
          /\ inserted = [p \in Paths |-> IF p \in {"/db", second} THEN 1 ELSE 0]
          /\ path_arg = [t \in Threads |-> IF t = 1 THEN "/db" ELSE second]
          /\ env_local = [t \in Threads |-> IF t = 1 \/ second = "/db" THEN 1 ELSE 2]
    /\ envs_lock = 0
    /\ pc = [t \in Threads |-> "idle"]
    /\ elast = [op |-> "none"]
    /\ last_write = [d \in Dirs |-> [k \in EnvKeys |-> None]]
    /\ open_failures = 0
    /\ calls = 0
    /\ dynamic_storage = VStorage_none
    /\ generic_storage = VStorageGeneric_none
    /\ enum_storage = VStorageEnum_default
    /\ last = [op |-> "new", out |-> [w \in Wrappers |-> [res |-> Ok(Unit)]]]
    /\ written = NothingWritten
    /\ BackendsFresh

InstNext ==
    \/ \E i \in 1..Len(instances), T \in {"Vec<u8>", "String"}, key \in EnvKeys,
          f1 \in ReadFaults, f2 \in ReadFaults : InstGet(i, T, key, f1, f2)
    \/ \E i \in 1..Len(instances), uri \in EnvKeys, iraw \in IrawVals,
          f1 \in ReadFaults, f2 \in ReadFaults : InstGetIndividual(i, uri, iraw, f1, f2)
    \/ \E i \in 1..Len(instances), key \in EnvKeys, val \in EnvVals, f \in WriteFaults :
          InstPut(i, key, val, f)
    \/ \E i \in 1..Len(instances), key \in EnvKeys, f \in WriteFaults : InstRemove(i, key, f)
    \/ \E i \in 1..Len(instances), f1 \in CountFaults, f2 \in CountFaults : InstCount(i, f1, f2)

\* ------------------------------------------------------------------------
\* The Storage trait on an LMDBStorage, the engine's answers as inputs
\* ------------------------------------------------------------------------

\* the read attempts the Individuals instance has already served when the
\* behaviour starts: none, or one short of max_read_counter
ReadsServed == {0, 999}

\* LMDBStorage::new("/db", mode, reopen) in a fresh process: three paths, three
\* environments; create_database committed or not
LmdbInit ==
    /\ \E mode \in StorageMode, reopen \in {None, Some(1)}, committed \in BOOLEAN,
          reads \in ReadsServed :
          /\ reopen_arg = reopen
          /\ lmdb_storage = [LMDBStorage_new("/db", mode, reopen, <<1, 2, 3>>)
                                EXCEPT !.individuals_db.read_counter = reads]
          /\ lmdb_tables = [e \in 1..3 |-> [EmptyTable EXCEPT !.created = committed]]
    /\ slast = [op |-> "none"]
    /\ lmdb_calls = 0
    /\ RemoteFresh
    /\ AuxFresh
    /\ EnvFresh
    /\ dynamic_storage = VStorage_none
    /\ generic_storage = VStorageGeneric_none
    /\ enum_storage = VStorageEnum_default
    /\ last = [op |-> "new", out |-> [w \in Wrappers |-> [res |-> Ok(Unit)]]]
    /\ written = NothingWritten

\* the engine answers a call with outcome o consumed
Answers(o, f1, f2) == IF o.txns = 2 THEN <<f1, f2>> ELSE <<f1>>

\* one Storage call with outcome o: the struct and the tables after it
StorageCall(op, storage, key, o, faults) ==
    /\ lmdb_calls < MaxStorageCalls
    /\ lmdb_storage' = o.st
    /\ lmdb_tables' = o.tb
    /\ slast' = [op |-> op, storage |-> storage, key |-> key, res |-> o.res,
                 faults |-> faults, txns |-> o.txns]
    /\ lmdb_calls' = lmdb_calls + 1
    /\ UNCHANGED <<reopen_arg, dispatch_vars, env_vars, remote_vars, aux_vars>>

StorageGetIndividual(storage, uri, iraw, f1, f2) ==
    LET o == LMDBStorage_get_individual(lmdb_storage, lmdb_tables, storage, uri, iraw, f1, f2)
    IN StorageCall("get_individual", storage, uri, o, Answers(o, f1, f2))

StorageGetValue(storage, key, f1, f2) ==
    LET o == LMDBStorage_get_value(lmdb_storage, lmdb_tables, storage, key, f1, f2)
    IN StorageCall("get_value", storage, key, o, Answers(o, f1, f2))

StorageGetRawValue(storage, key, f1, f2) ==
    LET o == LMDBStorage_get_raw_value(lmdb_storage, lmdb_tables, storage, key, f1, f2)
    IN StorageCall("get_raw_value", storage, key, o, Answers(o, f1, f2))

StoragePutValue(storage, key, val, f) ==
    LET o == LMDBStorage_put_value(lmdb_storage, lmdb_tables, storage, key, val, f)
    IN StorageCall("put_value", storage, key, o, <<f>>)

StoragePutRawValue(storage, key, val, f) ==
    LET o == LMDBStorage_put_raw_value(lmdb_storage, lmdb_tables, storage, key, val, f)
    IN StorageCall("put_raw_value", storage, key, o, <<f>>)

StorageRemoveValue(storage, key, f) ==
    LET o == LMDBStorage_remove_value(lmdb_storage, lmdb_tables, storage, key, f)
    IN StorageCall("remove_value", storage, key, o, <<f>>)

StorageCount(storage, f1, f2) ==
    LET o == LMDBStorage_count(lmdb_storage, lmdb_tables, storage, f1, f2)
    IN StorageCall("count", storage, "", o, Answers(o, f1, f2))

LmdbNext ==
    \/ \E storage \in StorageId, uri \in EnvKeys, iraw \in IrawVals,
          f1 \in ReadFaults, f2 \in ReadFaults : StorageGetIndividual(storage, uri, iraw, f1, f2)
    \/ \E storage \in StorageId, key \in EnvKeys, f1 \in ReadFaults, f2 \in ReadFaults :
          StorageGetValue(storage, key, f1, f2)
    \/ \E storage \in StorageId, key \in EnvKeys, f1 \in ReadFaults, f2 \in ReadFaults :
          StorageGetRawValue(storage, key, f1, f2)
    \/ \E storage \in StorageId, key \in EnvKeys, val \in StrVals, f \in WriteFaults :
          StoragePutValue(storage, key, val, f)
    \/ \E storage \in StorageId, key \in EnvKeys, val \in RawVals, f \in WriteFaults :
          StoragePutRawValue(storage, key, val, f)
    \/ \E storage \in StorageId, key \in EnvKeys, f \in WriteFaults :
          StorageRemoveValue(storage, key, f)
    \/ \E storage \in StorageId, f1 \in CountFaults, f2 \in CountFaults :
          StorageCount(storage, f1, f2)

\* ------------------------------------------------------------------------
\* Two LMDBStorage values, one constructed with the mode under test and one with
\* ReadWrite, each in a process of its own, given the same calls and the same
\* engine answers (lmdb_storage.rs 143-159, 372-387)
\* ------------------------------------------------------------------------

\* LMDBStorage::new("/db", mode, reopen) and LMDBStorage::new("/db", ReadWrite, reopen)
ModeInit ==
    /\ \E mode \in StorageMode, reopen \in {None, Some(1)}, committed \in BOOLEAN :
          /\ mode_arg = mode
          /\ reopen_arg = reopen
          /\ lmdb_storage = LMDBStorage_new("/db", mode, reopen, <<1, 2, 3>>)
          /\ lmdb_tables = [e \in 1..3 |-> init_database(EmptyTable, mode, committed)]
          /\ rw_storage = LMDBStorage_new("/db", "ReadWrite", reopen, <<1, 2, 3>>)
          /\ rw_tables = [e \in 1..3 |-> init_database(EmptyTable, "ReadWrite", committed)]
    /\ slast = [op |-> "none"]
    /\ rw_last = [op |-> "none"]
    /\ lmdb_calls = 0
    /\ dropped = {}
    /\ TTFresh
    /\ LayoutFresh
    /\ RemoteFresh
    /\ MemoryFresh /\ ResultFresh /\ ZeroCopyFresh /\ BuilderFresh
    /\ EnvFresh
    /\ dynamic_storage = VStorage_none
    /\ generic_storage = VStorageGeneric_none
    /\ enum_storage = VStorageEnum_default
    /\ last = [op |-> "new", out |-> [w \in Wrappers |-> [res |-> Ok(Unit)]]]
    /\ written = NothingWritten

\* one Storage call made on both: o, o2 the outcomes on the first and the second
ModeCall(op, storage, key, o, o2, faults) ==
    /\ lmdb_calls < MaxStorageCalls
    /\ lmdb_storage' = o.st
    /\ lmdb_tables' = o.tb
    /\ slast' = [op |-> op, storage |-> storage, key |-> key, res |-> o.res,
                 faults |-> faults, txns |-> o.txns]
    /\ rw_storage' = o2.st
    /\ rw_tables' = o2.tb
    /\ rw_last' = [op |-> op, storage |-> storage, key |-> key, res |-> o2.res,
                   faults |-> faults, txns |-> o2.txns]
    /\ lmdb_calls' = lmdb_calls + 1
    /\ UNCHANGED <<reopen_arg, dispatch_vars, env_vars, remote_vars, memory_vars, result_vars,
                   zero_copy_vars, builder_vars, dropped, mode_arg, tt_vars, layout_vars>>

ModeGetIndividual(storage, uri, iraw, f1, f2) ==
    LET o  == LMDBStorage_get_individual(lmdb_storage, lmdb_tables, storage, uri, iraw, f1, f2)
        o2 == LMDBStorage_get_individual(rw_storage, rw_tables, storage, uri, iraw, f1, f2)
    IN ModeCall("get_individual", storage, uri, o, o2, <<f1, f2>>)

ModeGetValue(storage, key, f1, f2) ==
    LET o  == LMDBStorage_get_value(lmdb_storage, lmdb_tables, storage, key, f1, f2)
        o2 == LMDBStorage_get_value(rw_storage, rw_tables, storage, key, f1, f2)
    IN ModeCall("get_value", storage, key, o, o2, <<f1, f2>>)

ModeGetRawValue(storage, key, f1, f2) ==
    LET o  == LMDBStorage_get_raw_value(lmdb_storage, lmdb_tables, storage, key, f1, f2)
        o2 == LMDBStorage_get_raw_value(rw_storage, rw_tables, storage, key, f1, f2)
    IN ModeCall("get_raw_value", storage, key, o, o2, <<f1, f2>>)

ModePutValue(storage, key, val, f) ==
    LET o  == LMDBStorage_put_value(lmdb_storage, lmdb_tables, storage, key, val, f)
        o2 == LMDBStorage_put_value(rw_storage, rw_tables, storage, key, val, f)
    IN ModeCall("put_value", storage, key, o, o2, <<f>>)

ModePutRawValue(storage, key, val, f) ==
    LET o  == LMDBStorage_put_raw_value(lmdb_storage, lmdb_tables, storage, key, val, f)
        o2 == LMDBStorage_put_raw_value(rw_storage, rw_tables, storage, key, val, f)
    IN ModeCall("put_raw_value", storage, key, o, o2, <<f>>)

ModeRemoveValue(storage, key, f) ==
    LET o  == LMDBStorage_remove_value(lmdb_storage, lmdb_tables, storage, key, f)
        o2 == LMDBStorage_remove_value(rw_storage, rw_tables, storage, key, f)
    IN ModeCall("remove_value", storage, key, o, o2, <<f>>)

ModeCount(storage, f1, f2) ==
    LET o  == LMDBStorage_count(lmdb_storage, lmdb_tables, storage, f1, f2)
        o2 == LMDBStorage_count(rw_storage, rw_tables, storage, f1, f2)
    IN ModeCall("count", storage, "", o, o2, <<f1, f2>>)

ModeNext ==
    \/ \E storage \in StorageId, uri \in EnvKeys, iraw \in IrawVals,
          f1 \in ReadFaults, f2 \in ReadFaults : ModeGetIndividual(storage, uri, iraw, f1, f2)
    \/ \E storage \in StorageId, key \in EnvKeys, f1 \in ReadFaults, f2 \in ReadFaults :
          ModeGetValue(storage, key, f1, f2)
    \/ \E storage \in StorageId, key \in EnvKeys, f1 \in ReadFaults, f2 \in ReadFaults :
          ModeGetRawValue(storage, key, f1, f2)
    \/ \E storage \in StorageId, key \in EnvKeys, val \in StrVals, f \in WriteFaults :
          ModePutValue(storage, key, val, f)
    \/ \E storage \in StorageId, key \in EnvKeys, val \in RawVals, f \in WriteFaults :
          ModePutRawValue(storage, key, val, f)
    \/ \E storage \in StorageId, key \in EnvKeys, f \in WriteFaults :
          ModeRemoveValue(storage, key, f)
    \/ \E storage \in StorageId, f1 \in CountFaults, f2 \in CountFaults :
          ModeCount(storage, f1, f2)

\* ------------------------------------------------------------------------
\* LMDBStorage::new and MDBXStorage::new in one process, each taking its three
\* environments from the registry of its engine, one after the other
\* (lmdb_storage.rs 372-387, mdbx_storage.rs 250-265)
\* ------------------------------------------------------------------------

\* the fields of a storage in the order the constructor fills them
InstanceFields == <<"individuals_db", "tickets_db", "az_db">>

\* the path strings the constructor of an engine builds from db_path
InstancePath(engine, db_path, i) ==
    IF engine = "lmdb"
    THEN LMDBStorage_new(db_path, "ReadWrite", None, <<0, 0, 0>>)[InstanceFields[i]].path
    ELSE MDBXStorage_new(db_path, "ReadWrite", None, <<0, 0, 0>>)[InstanceFields[i]].path

\* Path::new(path) for those strings: the directory under the directory of
\* db_path that the i-th path of an engine names
InstanceDir(engine, db_path, i) ==
    Canonical(db_path) \o "/" \o
       (IF engine = "lmdb" THEN <<"lmdb-individuals", "lmdb-tickets", "acl-indexes">>[i]
        ELSE <<"mdbx-individuals", "mdbx-tickets", "acl-indexes">>[i])

\* get_or_create_env / get_or_create_db run to its end with an open that
\* succeeds: the handle returned, the registry and the list of opened
\* environments afterwards
get_or_create(registry, opened_envs, path, dir) ==
    LET found == envs_map_get(registry, path)
    IN IF found.tag = "Some"
       THEN [h |-> found.val, reg |-> registry, envs |-> opened_envs]
       ELSE [h    |-> Len(opened_envs) + 1,
             reg  |-> HashMap_insert(registry, path, Len(opened_envs) + 1),
             envs |-> Append(opened_envs, [path |-> path, dir |-> dir])]

LayoutUnchanged ==
    UNCHANGED <<dispatch_vars, lmdb_vars, remote_vars, memory_vars, result_vars, zero_copy_vars,
                builder_vars, dropped, mode_vars, tt_vars, envs_lock, tables, pc, path_arg,
                env_local, instances, elast, opened, inserted, last_write, open_failures, calls>>

\* LMDBStorage::new(db_path, ..) / MDBXStorage::new(db_path, ..) is called
BeginNew(engine, db_path) ==
    /\ constructing = None
    /\ Len(storages) < MaxStorages
    /\ constructing' = Some([engine |-> engine, db_path |-> db_path, e |-> << >>])
    /\ UNCHANGED <<GLOBAL_ENVS, environments, GLOBAL_DBS, databases, storages>>
    /\ LayoutUnchanged

\* LmdbInstance::new for the next field of the LMDBStorage
NewLmdbInstance ==
    /\ constructing # None
    /\ constructing.val.engine = "lmdb"
    /\ Len(constructing.val.e) < 3
    /\ LET c == constructing.val
           i == Len(c.e) + 1
           g == get_or_create(GLOBAL_ENVS, environments, InstancePath("lmdb", c.db_path, i),
                              InstanceDir("lmdb", c.db_path, i))
       IN /\ GLOBAL_ENVS' = g.reg
          /\ environments' = g.envs
          /\ constructing' = Some([c EXCEPT !.e = Append(c.e, g.h)])
    /\ UNCHANGED <<GLOBAL_DBS, databases, storages>>
    /\ LayoutUnchanged

\* MdbxInstance::new for the next field of the MDBXStorage
NewMdbxInstance ==
    /\ constructing # None
    /\ constructing.val.engine = "mdbx"
    /\ Len(constructing.val.e) < 3
    /\ LET c == constructing.val
           i == Len(c.e) + 1
           g == get_or_create(GLOBAL_DBS, databases, InstancePath("mdbx", c.db_path, i),
                              InstanceDir("mdbx", c.db_path, i))
       IN /\ GLOBAL_DBS' = g.reg
          /\ databases' = g.envs
          /\ constructing' = Some([c EXCEPT !.e = Append(c.e, g.h)])
    /\ UNCHANGED <<GLOBAL_ENVS, environments, storages>>
    /\ LayoutUnchanged

\* the constructor returns the struct
ReturnNew ==
    /\ constructing # None
    /\ Len(constructing.val.e) = 3
    /\ LET c == constructing.val
       IN storages' = Append(storages,
             [engine |-> c.engine, db_path |-> c.db_path,
              obj |-> IF c.engine = "lmdb"
                      THEN LMDBStorage_new(c.db_path, "ReadWrite", None, c.e)
                      ELSE MDBXStorage_new(c.db_path, "ReadWrite", None, c.e)])
    /\ constructing' = None
    /\ UNCHANGED <<GLOBAL_ENVS, environments, GLOBAL_DBS, databases>>
    /\ LayoutUnchanged

LayoutNext ==
    \/ \E engine \in {"lmdb", "mdbx"}, db_path \in Paths : BeginNew(engine, db_path)
    \/ NewLmdbInstance
    \/ NewMdbxInstance
    \/ ReturnNew

\* ------------------------------------------------------------------------
\* The lookups on a TTStorage, the replies of the server as inputs
\* ------------------------------------------------------------------------

\* five bytes in front of the payload of a tuple
TTHeader == <<147, 1, 2, 3, 4>>

\* what a successful select can carry: nothing, less than a header, a header
\* alone, a header and a payload (parsable, not UTF-8)
TTData == {<< >>, <<147>>, SubSeq(TTHeader, 1, 4), TTHeader, TTHeader \o <<195, 169>>,
           TTHeader \o <<255>>}

\* what block_on(client.select(..)) can return
TTReplies == {[ok |-> FALSE]} \cup {[ok |-> TRUE, data |-> d] : d \in TTData}

\* TTStorage::new
TTInit ==
    /\ tt_last = [op |-> "new"]
    /\ tt_calls = 0
    /\ dropped = {}
    /\ ModeFresh
    /\ LayoutFresh
    /\ LmdbFresh
    /\ RemoteFresh
    /\ MemoryFresh /\ ResultFresh /\ ZeroCopyFresh /\ BuilderFresh
    /\ EnvFresh
    /\ dynamic_storage = VStorage_none
    /\ generic_storage = VStorageGeneric_none
    /\ enum_storage = VStorageEnum_default
    /\ last = [op |-> "new", out |-> [w \in Wrappers |-> [res |-> Ok(Unit)]]]
    /\ written = NothingWritten

\* one lookup answered with reply, with outcome o
TTCall(op, storage, key, reply, o) ==
    /\ tt_calls < MaxTTCalls
    /\ tt_last' = [op |-> op, storage |-> storage, key |-> key, reply |-> reply,
                   res |-> o.res, space |-> o.space,
                   iraw |-> IF "iraw" \in DOMAIN o THEN Some(o.iraw) ELSE None,
                   iraw_in |-> IF "iraw_in" \in DOMAIN o THEN Some(o.iraw_in) ELSE None]
    /\ tt_calls' = tt_calls + 1
    /\ UNCHANGED <<dispatch_vars, env_vars, lmdb_vars, remote_vars, memory_vars, result_vars,
                   zero_copy_vars, builder_vars, dropped, mode_vars, layout_vars>>

TTGetIndividual(storage, uri, iraw, reply) ==
    TTCall("get_individual", storage, uri, reply,
           TTStorage_get_individual(storage, uri, iraw, reply) @@ [iraw_in |-> iraw])

TTGetValue(storage, key, reply) ==
    TTCall("get_value", storage, key, reply, TTStorage_get_value(storage, key, reply))

TTGetRawValue(storage, key, reply) ==
    TTCall("get_raw_value", storage, key, reply, TTStorage_get_raw_value(storage, key, reply))

TTNext ==
    \/ \E storage \in StorageId, uri \in Keys, iraw \in IrawVals, reply \in TTReplies :
          TTGetIndividual(storage, uri, iraw, reply)
    \/ \E storage \in StorageId, key \in Keys, reply \in TTReplies :
          TTGetValue(storage, key, reply)
    \/ \E storage \in StorageId, key \in Keys, reply \in TTReplies :
          TTGetRawValue(storage, key, reply)

\* ------------------------------------------------------------------------
\* The calls on a StorageROClient, the socket's answers as inputs
\* ------------------------------------------------------------------------

\* StorageROClient::new(addr)
RemoteInit ==
    /\ \E addr \in Addrs : client = StorageROClient_new(addr)
    /\ rlast = [op |-> "new", io |-> << >>]
    /\ remote_calls = 0
    /\ LmdbFresh
    /\ AuxFresh
    /\ EnvFresh
    /\ dynamic_storage = VStorage_none
    /\ generic_storage = VStorageGeneric_none
    /\ enum_storage = VStorageEnum_default
    /\ last = [op |-> "new", out |-> [w \in Wrappers |-> [res |-> Ok(Unit)]]]
    /\ written = NothingWritten

\* one call with outcome o (was: is_ready when the call was made; iraw_in, iraw:
\* the caller's object before and after a get_individual)
RemoteCall(op, storage, o) ==
    /\ remote_calls < MaxRemoteCalls
    /\ client' = o.st
    /\ rlast' = [op |-> op, storage |-> storage, res |-> o.res, io |-> o.io,
                 was |-> client.is_ready,
                 iraw |-> IF "iraw" \in DOMAIN o THEN Some(o.iraw) ELSE None,
                 iraw_in |-> IF "iraw_in" \in DOMAIN o THEN Some(o.iraw_in) ELSE None,
                 id |-> IF "id" \in DOMAIN o THEN o.id ELSE ""]
    /\ remote_calls' = remote_calls + 1
    /\ UNCHANGED <<dispatch_vars, env_vars, lmdb_vars, aux_vars>>

RemoteConnect(dial) ==
    LET c == connect(client, dial)
    IN RemoteCall("connect", "none", [res |-> c.ret, st |-> c.st, io |-> c.io])

RemoteGetIndividual(storage, id, iraw, dial, send, recv) ==
    RemoteCall("get_individual", storage,
               StorageROClient_get_individual(client, storage, id, iraw, dial, send, recv)
                  @@ [iraw_in |-> iraw, id |-> id])

RemoteGetValue(storage, key) ==
    RemoteCall("get_value", storage, StorageROClient_get_value(client, storage, key))

RemoteGetRawValue(storage, key) ==
    RemoteCall("get_raw_value", storage, StorageROClient_get_raw_value(client, storage, key))

RemotePutValue(storage, key, val) ==
    RemoteCall("put_value", storage, StorageROClient_put_value(client, storage, key, val))

RemotePutRawValue(storage, key, val) ==
    RemoteCall("put_raw_value", storage, StorageROClient_put_raw_value(client, storage, key, val))

RemoteRemoveValue(storage, key) ==
    RemoteCall("remove_value", storage, StorageROClient_remove_value(client, storage, key))

RemoteCount(storage) ==
    RemoteCall("count", storage, StorageROClient_count(client, storage))

RemoteNext ==
    \/ \E dial \in BOOLEAN : RemoteConnect(dial)
    \/ \E storage \in StorageId, id \in Keys, iraw \in IrawVals, dial \in BOOLEAN,
          send \in BOOLEAN, recv \in RecvResults :
          RemoteGetIndividual(storage, id, iraw, dial, send, recv)
    \/ \E storage \in StorageId, key \in Keys : RemoteGetValue(storage, key)
    \/ \E storage \in StorageId, key \in Keys : RemoteGetRawValue(storage, key)
    \/ \E storage \in StorageId, key \in Keys, val \in StrVals : RemotePutValue(storage, key, val)
    \/ \E storage \in StorageId, key \in Keys, val \in RawVals :
          RemotePutRawValue(storage, key, val)
    \/ \E storage \in StorageId, key \in Keys : RemoteRemoveValue(storage, key)
    \/ \E storage \in StorageId : RemoteCount(storage)

\* ------------------------------------------------------------------------
\* The Storage trait on a MemoryStorage whose locks can be poisoned: a thread
\* that panics while it holds the write guard of a namespace map poisons
\* that RwLock
\* ------------------------------------------------------------------------

\* MemoryStorage::new()
MemoryInit ==
    /\ mem = MemoryStorage_new
    /\ mlast = [op |-> "new"]
    /\ mem_calls = 0
    /\ ResultFresh
    /\ ZeroCopyFresh
    /\ BuilderFresh
    /\ RegistryFresh
    /\ LmdbFresh
    /\ RemoteFresh
    /\ EnvFresh
    /\ dynamic_storage = VStorage_none
    /\ generic_storage = VStorageGeneric_none
    /\ enum_storage = VStorageEnum_default
    /\ last = [op |-> "new", out |-> [w \in Wrappers |-> [res |-> Ok(Unit)]]]
    /\ written = NothingWritten

\* one call with outcome o on namespace storage
MemoryCall(op, storage, o) ==
    /\ mem_calls < MaxMemoryCalls
    /\ mem' = o.st
    /\ mlast' = [op |-> op, storage |-> storage, res |-> o.res, same |-> o.st = mem]
    /\ mem_calls' = mem_calls + 1
    /\ UNCHANGED <<dispatch_vars, env_vars, lmdb_vars, remote_vars, result_vars, zero_copy_vars,
                   builder_vars,
                   registry_vars>>

\* a thread panics while it holds the write guard of the map of storage: the
\* guard is dropped during unwinding and the lock is poisoned
PanicHoldingWriteGuard(storage) ==
    MemoryCall("panic", storage,
               [res |-> Panic, st |-> [mem EXCEPT ![get_storage(storage)].poisoned = TRUE]])

MemGetIndividual(storage, uri, iraw) ==
    MemoryCall("get_individual", storage, MemoryStorage_get_individual(mem, storage, uri, iraw))

MemGetValue(storage, key) ==
    MemoryCall("get_value", storage, MemoryStorage_get_value(mem, storage, key))

MemGetRawValue(storage, key) ==
    MemoryCall("get_raw_value", storage, MemoryStorage_get_raw_value(mem, storage, key))

MemPutValue(storage, key, val) ==
    MemoryCall("put_value", storage, MemoryStorage_put_value(mem, storage, key, val))

MemPutRawValue(storage, key, val) ==
    MemoryCall("put_raw_value", storage, MemoryStorage_put_raw_value(mem, storage, key, val))

MemRemoveValue(storage, key) ==
    MemoryCall("remove_value", storage, MemoryStorage_remove_value(mem, storage, key))

MemCount(storage) ==
    MemoryCall("count", storage, MemoryStorage_count(mem, storage))

\* one call of a deprecated method with arguments args
MemoryAliasCall(op, storage, args, o) ==
    /\ mem_calls < MaxMemoryCalls
    /\ mem' = o.st
    /\ mlast' = [op |-> op, storage |-> storage, args |-> args, res |-> o.res,
                 pre |-> mem, iraw |-> IF "iraw" \in DOMAIN o THEN o.iraw ELSE Individual_default]
    /\ mem_calls' = mem_calls + 1
    /\ UNCHANGED <<dispatch_vars, env_vars, lmdb_vars, remote_vars, result_vars, zero_copy_vars,
                   builder_vars,
                   registry_vars>>

MemGetIndividualFromDb(storage, id, iraw) ==
    MemoryAliasCall("get_individual_from_db", storage, [id |-> id, iraw |-> iraw],
                    Storage_get_individual_from_db(mem, storage, id, iraw))

MemGetV(storage, key) ==
    MemoryAliasCall("get_v", storage, [key |-> key], Storage_get_v(mem, storage, key))

MemGetRaw(storage, key) ==
    MemoryAliasCall("get_raw", storage, [key |-> key], Storage_get_raw(mem, storage, key))

MemPutKv(storage, key, val) ==
    MemoryAliasCall("put_kv", storage, [key |-> key, val |-> val],
                    Storage_put_kv(mem, storage, key, val))

MemPutKvRaw(storage, key, val) ==
    MemoryAliasCall("put_kv_raw", storage, [key |-> key, val |-> val],
                    Storage_put_kv_raw(mem, storage, key, val))

MemRemove(storage, key) ==
    MemoryAliasCall("remove", storage, [key |-> key], Storage_remove(mem, storage, key))

MemoryNext ==
    \/ \E storage \in StorageId : PanicHoldingWriteGuard(storage)
    \/ \E storage \in StorageId, uri \in Keys, iraw \in IrawVals :
          MemGetIndividual(storage, uri, iraw)
    \/ \E storage \in StorageId, key \in Keys : MemGetValue(storage, key)
    \/ \E storage \in StorageId, key \in Keys : MemGetRawValue(storage, key)
    \/ \E storage \in StorageId, key \in Keys, val \in StrVals : MemPutValue(storage, key, val)
    \/ \E storage \in StorageId, key \in Keys, val \in RawVals : MemPutRawValue(storage, key, val)
    \/ \E storage \in StorageId, key \in Keys : MemRemoveValue(storage, key)
    \/ \E storage \in StorageId : MemCount(storage)
    \/ \E storage \in StorageId, id \in Keys, iraw \in IrawVals :
          MemGetIndividualFromDb(storage, id, iraw)
    \/ \E storage \in StorageId, key \in Keys : MemGetV(storage, key)
    \/ \E storage \in StorageId, key \in Keys : MemGetRaw(storage, key)
    \/ \E storage \in StorageId, key \in Keys, val \in StrVals : MemPutKv(storage, key, val)
    \/ \E storage \in StorageId, key \in Keys, val \in RawVals : MemPutKvRaw(storage, key, val)
    \/ \E storage \in StorageId, key \in Keys : MemRemove(storage, key)

\* ------------------------------------------------------------------------
\* common.rs: impl StorageResult<T>, applied to every value of the type
\* (T = U = u8 restricted to ResultVals, two of the messages the backends use)
\* ------------------------------------------------------------------------

ResultVals == {0, 1}

Messages == {"Invalid UTF-8 data", "Remote storage is read-only"}

StorageResults ==
    {Ok(x) : x \in ResultVals} \cup {NotFound, NotReady, UnprocessableEntity}
       \cup {Error(m) : m \in Messages}

\* the closures handed to map (T -> U) and to and_then (T -> StorageResult<U>)
MapClosures == [ResultVals -> ResultVals]

AndThenClosures == [ResultVals -> StorageResults]

ResultInit ==
    /\ result \in StorageResults
    /\ result_last = [op |-> "new"]
    /\ MemoryFresh
    /\ ZeroCopyFresh
    /\ BuilderFresh
    /\ RegistryFresh
    /\ LmdbFresh
    /\ RemoteFresh
    /\ EnvFresh
    /\ dynamic_storage = VStorage_none
    /\ generic_storage = VStorageGeneric_none
    /\ enum_storage = VStorageEnum_default
    /\ last = [op |-> "new", out |-> [w \in Wrappers |-> [res |-> Ok(Unit)]]]
    /\ written = NothingWritten

ResultUnchanged ==
    UNCHANGED <<dispatch_vars, env_vars, lmdb_vars, remote_vars, memory_vars, zero_copy_vars,
                builder_vars,
                   registry_vars>>

\* result.is_ok() and result.is_error() borrow the value
ResultIsOk ==
    /\ result_last' = [op |-> "is_ok", self |-> result, out |-> is_ok(result)]
    /\ UNCHANGED result
    /\ ResultUnchanged

ResultIsError ==
    /\ result_last' = [op |-> "is_error", self |-> result, out |-> is_error(result)]
    /\ UNCHANGED result
    /\ ResultUnchanged

\* result = result.map(f): the value is consumed and replaced by what map returns
ResultMap(f) ==
    \E o \in {StorageResult_map(result, f)} :
       /\ result_last' = [op |-> "map", self |-> result, f |-> f,
                          out |-> o.out, calls |-> o.calls]
       /\ result' = o.out
       /\ ResultUnchanged

\* result = result.and_then(f)
ResultAndThen(f) ==
    \E o \in {StorageResult_and_then(result, f)} :
       /\ result_last' = [op |-> "and_then", self |-> result, f |-> f,
                          out |-> o.out, calls |-> o.calls]
       /\ result' = o.out
       /\ ResultUnchanged

ResultNext ==
    \/ ResultIsOk
    \/ ResultIsError
    \/ \E f \in MapClosures : ResultMap(f)
    \/ \E f \in AndThenClosures : ResultAndThen(f)

\* ------------------------------------------------------------------------
\* lmdb_storage.rs: the zero-copy API of LmdbInstance. The caller holds at most
\* one read transaction (heed::WithTls); put and remove reach the environment
\* through any instance of it and may commit while the transaction lives.
\* ------------------------------------------------------------------------

\* keys of examples/zero_copy_api.rs
ZcKeys == {"test:key1", "test:key2"}

MaxZeroCopyCalls == 4

\* LmdbInstance::new: the default table exists, or its creation failed
ZeroCopyInit ==
    /\ zc_table \in {EmptyTable, [EmptyTable EXCEPT !.created = TRUE]}
    /\ ro_txn = None
    /\ zc_last = [op |-> "new"]
    /\ zc_written = [k \in ZcKeys |-> None]
    /\ zc_begun = None
    /\ zc_calls = 0
    /\ MemoryFresh
    /\ ResultFresh
    /\ BuilderFresh
    /\ RegistryFresh
    /\ LmdbFresh
    /\ RemoteFresh
    /\ EnvFresh
    /\ dynamic_storage = VStorage_none
    /\ generic_storage = VStorageGeneric_none
    /\ enum_storage = VStorageEnum_default
    /\ last = [op |-> "new", out |-> [w \in Wrappers |-> [res |-> Ok(Unit)]]]
    /\ written = NothingWritten

ZeroCopyCall ==
    /\ zc_calls < MaxZeroCopyCalls
    /\ zc_calls' = zc_calls + 1
    /\ UNCHANGED <<dispatch_vars, env_vars, lmdb_vars, remote_vars, memory_vars, result_vars,
                   builder_vars,
                   registry_vars>>

\* let txn = instance.begin_ro_txn()
ZcBeginRoTxn(f) ==
    /\ ro_txn = None
    /\ ZeroCopyCall
    /\ \E o \in {begin_ro_txn(zc_table, f)} :
          /\ ro_txn' = IF o.ok THEN Some(o.txn) ELSE None
          /\ zc_begun' = IF o.ok THEN zc_written ELSE None
          /\ zc_last' = [op |-> "begin_ro_txn", ok |-> o.ok]
    /\ UNCHANGED <<zc_table, zc_written>>

\* instance.get_with_txn(&txn, key)
ZcGetWithTxn(key, f) ==
    /\ ro_txn # None
    /\ ZeroCopyCall
    /\ zc_last' = [op |-> "get_with_txn", key |-> key, f |-> f,
                   res |-> get_with_txn(zc_table, ro_txn.val, key, f)]
    /\ UNCHANGED <<zc_table, ro_txn, zc_written, zc_begun>>

\* the transaction goes out of scope
ZcDropTxn ==
    /\ ro_txn # None
    /\ ZeroCopyCall
    /\ ro_txn' = None
    /\ zc_begun' = None
    /\ zc_last' = [op |-> "drop"]
    /\ UNCHANGED <<zc_table, zc_written>>

\* put(key, val)
ZcPut(key, val, f) ==
    /\ ZeroCopyCall
    /\ \E o \in {LmdbInstance_put(zc_table, key, val, f)} :
          /\ zc_table' = o.t
          /\ zc_written' = IF o.ok THEN [zc_written EXCEPT ![key] = Some(val)] ELSE zc_written
          /\ zc_last' = [op |-> "put", key |-> key, ok |-> o.ok]
    /\ UNCHANGED <<ro_txn, zc_begun>>

\* remove(key)
ZcRemove(key, f) ==
    /\ ZeroCopyCall
    /\ \E o \in {LmdbInstance_remove(zc_table, key, f)} :
          /\ zc_table' = o.t
          /\ zc_written' = IF o.ok THEN [zc_written EXCEPT ![key] = None] ELSE zc_written
          /\ zc_last' = [op |-> "remove", key |-> key, ok |-> o.ok]
    /\ UNCHANGED <<ro_txn, zc_begun>>

ZeroCopyNext ==
    \/ \E f \in BeginFaults : ZcBeginRoTxn(f)
    \/ \E key \in ZcKeys, f \in TxnReadFaults : ZcGetWithTxn(key, f)
    \/ ZcDropTxn
    \/ \E key \in ZcKeys, val \in EnvVals, f \in WriteFaults : ZcPut(key, val, f)
    \/ \E key \in ZcKeys, f \in WriteFaults : ZcRemove(key, f)

\* ------------------------------------------------------------------------
\* storage_factory.rs: StorageConfig, StorageBuilder, DefaultStorageFactory
\* (built without the Tarantool features)
\* ------------------------------------------------------------------------

\* Result<T, StorageError>
Result_Ok(x) == [tag |-> "Ok", val |-> x]
Result_Err(e) == [tag |-> "Err", err |-> e]

InvalidConfiguration(msg) == [variant |-> "InvalidConfiguration", msg |-> msg]

StorageConfig_Memory == [kind |-> "Memory"]

StorageConfig_Lmdb(path, mode, max_read_counter_reopen) ==
    [kind |-> "Lmdb", path |-> path, mode |-> mode,
     max_read_counter_reopen |-> max_read_counter_reopen]

StorageConfig_Remote(address) == [kind |-> "Remote", address |-> address]

\* arguments handed to the selectors
BuilderPaths == {"/db", "/x"}

ReopenArgs == {None, Some(1)}

StorageBuilder_new == [config |-> None]

\* the selectors take the builder by value, set config and return the builder

StorageBuilder_memory(self) == [self EXCEPT !.config = Some(StorageConfig_Memory)]

\* an lmdb selector that keeps a configuration chosen earlier
\* (self.config.get_or_insert(..))
StorageBuilder_lmdb_keep_first(self, path, mode, max_read_counter_reopen) ==
    IF self.config = None
    THEN [self EXCEPT !.config = Some(StorageConfig_Lmdb(path, mode, max_read_counter_reopen))]
    ELSE self

StorageBuilder_lmdb(self, path, mode, max_read_counter_reopen) ==
    [self EXCEPT !.config = Some(StorageConfig_Lmdb(path, mode, max_read_counter_reopen))]

StorageBuilder_remote(self, address) ==
    [self EXCEPT !.config = Some(StorageConfig_Remote(address))]

\* StorageProvider::memory / lmdb / remote behind
\* DefaultStorageFactory::create_storage_from_config: the boxed backend
create_storage_from_config(config) ==
    CASE config.kind = "Memory" -> Result_Ok(Box_dyn_memory)
      [] config.kind = "Lmdb" ->
            Result_Ok([vtable |-> "LMDBStorage",
                       obj |-> LMDBStorage_new(config.path, config.mode,
                                               config.max_read_counter_reopen, <<1, 2, 3>>)])
      [] config.kind = "Remote" ->
            Result_Ok([vtable |-> "StorageROClient", obj |-> StorageROClient_new(config.address)])

StorageBuilder_build(self) ==
    IF self.config = None
    THEN Result_Err(InvalidConfiguration("No storage type specified"))
    ELSE create_storage_from_config(self.config.val)

StorageBuilder_build_memory_generic(self) ==
    IF self.config # None /\ self.config.val.kind = "Memory"
    THEN Result_Ok(VStorageGeneric_new(MemoryStorage_new))
    ELSE Result_Err(InvalidConfiguration("Builder is not configured for memory storage"))

StorageBuilder_build_lmdb_generic(self) ==
    IF self.config # None /\ self.config.val.kind = "Lmdb"
    THEN Result_Ok(VStorageGeneric_new(
                      LMDBStorage_new(self.config.val.path, self.config.val.mode,
                                      self.config.val.max_read_counter_reopen, <<1, 2, 3>>)))
    ELSE Result_Err(InvalidConfiguration("Builder is not configured for LMDB storage"))

StorageBuilder_build_remote_generic(self) ==
    IF self.config # None /\ self.config.val.kind = "Remote"
    THEN Result_Ok(VStorageGeneric_new(StorageROClient_new(self.config.val.address)))
    ELSE Result_Err(InvalidConfiguration("Builder is not configured for remote storage"))

\* the most selectors called on one builder
MaxSelectors == 3

\* StorageBuilder::new()
BuilderInit ==
    /\ builder = Some(StorageBuilder_new)
    /\ selected = << >>
    /\ built = None
    /\ MemoryFresh
    /\ ResultFresh
    /\ ZeroCopyFresh
    /\ RegistryFresh
    /\ LmdbFresh
    /\ RemoteFresh
    /\ EnvFresh
    /\ dynamic_storage = VStorage_none
    /\ generic_storage = VStorageGeneric_none
    /\ enum_storage = VStorageEnum_default
    /\ last = [op |-> "new", out |-> [w \in Wrappers |-> [res |-> Ok(Unit)]]]
    /\ written = NothingWritten

BuilderUnchanged ==
    UNCHANGED <<dispatch_vars, env_vars, lmdb_vars, remote_vars, memory_vars, result_vars,
                zero_copy_vars, registry_vars>>

\* a selector takes the builder by value and returns it
Select(config, after) ==
    /\ builder # None
    /\ Len(selected) < MaxSelectors
    /\ builder' = Some(after)
    /\ selected' = Append(selected, config)
    /\ UNCHANGED built
    /\ BuilderUnchanged

BuilderMemory == Select(StorageConfig_Memory, StorageBuilder_memory(builder.val))

BuilderLmdb(path, mode, reopen) ==
    Select(StorageConfig_Lmdb(path, mode, reopen),
           StorageBuilder_lmdb(builder.val, path, mode, reopen))

BuilderRemote(address) ==
    Select(StorageConfig_Remote(address), StorageBuilder_remote(builder.val, address))

\* a build method consumes the builder
Consume(op, res) ==
    /\ builder # None
    /\ builder' = None
    /\ built' = Some([op |-> op, res |-> res])
    /\ UNCHANGED selected
    /\ BuilderUnchanged

Build == Consume("build", StorageBuilder_build(builder.val))

BuildMemoryGeneric ==
    Consume("build_memory_generic", StorageBuilder_build_memory_generic(builder.val))

BuildLmdbGeneric ==
    Consume("build_lmdb_generic", StorageBuilder_build_lmdb_generic(builder.val))

BuildRemoteGeneric ==
    Consume("build_remote_generic", StorageBuilder_build_remote_generic(builder.val))

BuilderNext ==
    \/ BuilderMemory
    \/ \E path \in BuilderPaths, mode \in StorageMode, reopen \in ReopenArgs :
          BuilderLmdb(path, mode, reopen)
    \/ \E address \in Addrs : BuilderRemote(address)
    \/ Build
    \/ BuildMemoryGeneric
    \/ BuildLmdbGeneric
    \/ BuildRemoteGeneric

vars == <<dispatch_vars, env_vars, backend_vars>>

Init == DispatchInit

Next == DispatchNext

Spec == Init /\ [][Next]_vars

SpecEnv == EnvInit /\ [][EnvNext]_vars

SpecInst == InstInit /\ [][InstNext]_vars

SpecRegistry == EnvInit /\ [][RegistryNext]_vars

SpecLmdb == LmdbInit /\ [][LmdbNext]_vars

SpecMode == ModeInit /\ [][ModeNext]_vars

SpecRemote == RemoteInit /\ [][RemoteNext]_vars

SpecTT == TTInit /\ [][TTNext]_vars

SpecLayout == EnvInit /\ [][LayoutNext]_vars

SpecMemory == MemoryInit /\ [][MemoryNext]_vars

SpecResult == ResultInit /\ [][ResultNext]_vars

SpecZeroCopy == ZeroCopyInit /\ [][ZeroCopyNext]_vars

SpecBuilder == BuilderInit /\ [][BuilderNext]_vars

\* ------------------------------------------------------------------------
\* What a caller observes through wrapper w when its value is self
\* ------------------------------------------------------------------------

Cur(w) ==
    CASE w = "dynamic" -> dynamic_storage
      [] w = "generic" -> generic_storage
      [] w = "enum"    -> enum_storage

IsEmpty(w, self) ==
    CASE w = "dynamic" -> VStorage_is_empty(self)
      [] w = "generic" -> VStorageGeneric_is_empty(self)
      [] w = "enum"    -> VStorageEnum_is_empty(self)

WGetValue(w, self, ns, k) ==
    CASE w = "dynamic" -> VStorage_get_value(self, ns, k)
      [] w = "generic" -> VStorageGeneric_get_value(self, ns, k)
      [] w = "enum"    -> VStorageEnum_get_value(self, ns, k)

WGetRawValue(w, self, ns, k) ==
    CASE w = "dynamic" -> VStorage_get_raw_value(self, ns, k)
      [] w = "generic" -> VStorageGeneric_get_raw_value(self, ns, k)
      [] w = "enum"    -> VStorageEnum_get_raw_value(self, ns, k)

WGetIndividual(w, self, ns, k, iraw) ==
    CASE w = "dynamic" -> VStorage_get_individual_from_storage(self, ns, k, iraw)
      [] w = "generic" -> VStorageGeneric_get_individual_from_storage(self, ns, k, iraw)
      [] w = "enum"    -> VStorageEnum_get_individual(self, ns, k, iraw)

WPutValue(w, self, ns, k, v) ==
    CASE w = "dynamic" -> VStorage_put_value(self, ns, k, v)
      [] w = "generic" -> VStorageGeneric_put_value(self, ns, k, v)
      [] w = "enum"    -> VStorageEnum_put_value(self, ns, k, v)

WPutRawValue(w, self, ns, k, v) ==
    CASE w = "dynamic" -> VStorage_put_raw_value(self, ns, k, v)
      [] w = "generic" -> VStorageGeneric_put_raw_value(self, ns, k, v)
      [] w = "enum"    -> VStorageEnum_put_raw_value(self, ns, k, v)

WRemoveValue(w, self, ns, k) ==
    CASE w = "dynamic" -> VStorage_remove_value(self, ns, k)
      [] w = "generic" -> VStorageGeneric_remove_value(self, ns, k)
      [] w = "enum"    -> VStorageEnum_remove_value(self, ns, k)

WCount(w, self, ns) ==
    CASE w = "dynamic" -> VStorage_count(self, ns)
      [] w = "generic" -> VStorageGeneric_count(self, ns)
      [] w = "enum"    -> VStorageEnum_count(self, ns)

\* the contents of the backend a wrapper holds: per namespace, the stored pairs
Contents(w, self) ==
    IF IsEmpty(w, self) THEN "no backend"
    ELSE LET m == CASE w = "dynamic" -> self.storage.val.obj
                    [] w = "generic" -> self.storage.val
                    [] w = "enum"    -> self.s
         IN [ns \in StorageId |->
                {<<k, m[get_storage(ns)].data[k]>> : k \in DOMAIN m[get_storage(ns)].data}]

\* what namespace ns of wrapper w holds: its count and its stored pairs
Visible(w, self, ns) ==
    [count |-> WCount(w, self, ns).res,
     pairs |-> IF IsEmpty(w, self) THEN {} ELSE Contents(w, self)[ns]]

\* the keys the history says are present in ns for wrapper w
Present(w, ns) == {k \in Keys : written[w][ns][k] # None}

\* the mutations of one cell of a namespace, as the results of applying them
\* to the wrapper's current value
Mutations(w, ns, k) ==
    [put_value     |-> [v \in StrVals |-> WPutValue(w, Cur(w), ns, k, v)],
     put_raw_value |-> [v \in RawVals |-> WPutRawValue(w, Cur(w), ns, k, v)],
     remove_value  |-> WRemoveValue(w, Cur(w), ns, k)]

\* the calls whose results Mutations(w, ns, k) holds
MutationCalls ==
    {<<"put_value", v>> : v \in StrVals} \cup {<<"put_raw_value", v>> : v \in RawVals}
        \cup {<<"remove_value", << >> >>}

Result(m, c) == IF c[1] = "remove_value" THEN m[c[1]] ELSE m[c[1]][c[2]]

\* ------------------------------------------------------------------------
\* Claims on the dispatch wrappers and the in-memory backend
\* ------------------------------------------------------------------------

\* C1: after any sequence of the seven operations applied in lockstep to a
\* VStorage, a VStorageGeneric and a VStorageEnum over equivalent backends,
\* the last operation returned the same outcome (and left the same bytes in the
\* caller's Individual) in all three, and the three backends hold the same
\* contents.
C1_LockstepEquivalence ==
    /\ last.out["dynamic"] = last.out["generic"]
    /\ last.out["generic"] = last.out["enum"]
    /\ Contents("dynamic", dynamic_storage) = Contents("generic", generic_storage)
    /\ Contents("generic", generic_storage) = Contents("enum", enum_storage)

\* C1 witness: a remove succeeded in all three wrappers while another key is
\* still stored with a non-empty payload.
C1_Witness ==
    /\ last.op = "remove_value"
    /\ \A w \in Wrappers : last.out[w].res = Ok(Unit)
    /\ \E ns \in StorageId, k \in Keys :
          WGetRawValue("enum", enum_storage, ns, k).res = Ok(<<195, 169>>)

\* C2: for every wrapper, namespace and key: while the last successful put on
\* (ns, k) was put_value(v) and no remove succeeded since, get_value(ns, k)
\* returns Ok(v); while it was put_raw_value(b), get_raw_value(ns, k) returns
\* Ok(b). The empty key and the empty payload are among the cases.
C2_LastWriteWins ==
    \A w \in Wrappers, ns \in StorageId, k \in Keys :
        written[w][ns][k] # None =>
            LET e == written[w][ns][k].val
            IN /\ e.api = "put_value" => WGetValue(w, Cur(w), ns, k).res = Ok(e.val)
               /\ e.api = "put_raw_value" => WGetRawValue(w, Cur(w), ns, k).res = Ok(e.val)

\* C2 witness: get_value has just returned Ok("\u{e9}") while the empty key holds
\* the empty raw payload in one namespace and a non-ASCII string in another.
C2_Witness ==
    /\ last.op = "get_value"
    /\ \A w \in Wrappers : last.out[w].res = Ok(<<233>>)
    /\ \E ns \in StorageId :
          written["dynamic"][ns][""] = Some([api |-> "put_raw_value", val |-> << >>])
    /\ \E ns \in StorageId :
          written["dynamic"][ns][""] = Some([api |-> "put_value", val |-> <<233>>])

\* C3: with a backend present: get_value on a key absent from ns returns
\* NotFound; remove_value on an absent key returns NotFound and changes
\* nothing; remove_value on a present key returns Ok, after which get_value
\* of that key returns NotFound and another remove_value returns NotFound.
C3_AbsentAndRemove ==
    \A w \in Wrappers : ~IsEmpty(w, Cur(w)) =>
        \A ns \in StorageId, k \in Keys :
            \A removed \in {WRemoveValue(w, Cur(w), ns, k)} :
                IF k \in Present(w, ns)
                THEN /\ removed.res = Ok(Unit)
                     /\ WGetValue(w, removed.st, ns, k).res = NotFound
                     /\ WRemoveValue(w, removed.st, ns, k).res = NotFound
                ELSE /\ WGetValue(w, Cur(w), ns, k).res = NotFound
                     /\ removed.res = NotFound
                     /\ Contents(w, removed.st) = Contents(w, Cur(w))

\* C3 witness: a remove of a present key has just returned Ok and other keys
\* are still present.
C3_Witness ==
    /\ last.op = "remove_value"
    /\ last.out["generic"].res = Ok(Unit)
    /\ \E ns \in StorageId : Present("generic", ns) # {}
    /\ \E ns \in StorageId : Present("generic", ns) # Keys

\* C4: count(ns) returns Ok(n), n the number of distinct keys present in ns
\* according to the history of successful puts and removes.
C4_CountIsPresentKeys ==
    \A w \in Wrappers : ~IsEmpty(w, Cur(w)) =>
        /\ \A ns \in StorageId :
              WCount(w, Cur(w), ns).res = Ok(Cardinality(Present(w, ns)))
        /\ last.op = "count" => \E ns \in StorageId :
                                    last.out[w].res = Ok(Cardinality(Present(w, ns)))

\* C4 witness: count has just returned Ok(2).
C4_Witness ==
    /\ last.op = "count"
    /\ \A w \in Wrappers : last.out[w].res = Ok(2)

\* C5: a put_value, put_raw_value or remove_value on namespace ns leaves what
\* every other namespace holds, and its count, unchanged.
C5_NamespacesIndependent ==
    \A w \in Wrappers :
        \A before \in {[other \in StorageId |-> Visible(w, Cur(w), other)]} :
            \A ns \in StorageId, k \in Keys :
                \A m \in {Mutations(w, ns, k)} :
                    \A c \in MutationCalls, other \in StorageId \ {ns} :
                        Visible(w, Result(m, c).st, other) = before[other]

\* C5 witness: one key holds three different payloads in the three namespaces.
C5_Witness ==
    /\ WGetRawValue("enum", enum_storage, "Individuals", "k").res = Ok(<< >>)
    /\ WGetRawValue("enum", enum_storage, "Tickets", "k").res = Ok(<<195, 169>>)
    /\ WGetRawValue("enum", enum_storage, "Az", "k").res = Ok(<<255>>)

\* C6: an empty wrapper returns NotReady for each of the seven operations,
\* whatever the namespace and the arguments, and stays empty.
C6_EmptyIsNotReady ==
    \A w \in Wrappers : IsEmpty(w, Cur(w)) =>
        /\ last.op # "new" => last.out[w].res = NotReady
        /\ \A ns \in StorageId, k \in Keys :
              /\ \A iraw \in IrawVals :
                    /\ WGetIndividual(w, Cur(w), ns, k, iraw).res = NotReady
                    /\ WGetIndividual(w, Cur(w), ns, k, iraw).iraw = iraw
                    /\ IsEmpty(w, WGetIndividual(w, Cur(w), ns, k, iraw).st)
              /\ WGetValue(w, Cur(w), ns, k).res = NotReady
              /\ WGetRawValue(w, Cur(w), ns, k).res = NotReady
              /\ WCount(w, Cur(w), ns).res = NotReady
              /\ \A m \in {Mutations(w, ns, k)} :
                    \A c \in MutationCalls :
                        Result(m, c).res = NotReady /\ IsEmpty(w, Result(m, c).st)

\* C6 witness: a put_value on the three empty wrappers has returned NotReady.
C6_Witness ==
    /\ \A w \in Wrappers : IsEmpty(w, Cur(w))
    /\ last.op = "put_value"
    /\ \A w \in Wrappers : last.out[w].res = NotReady

\* ------------------------------------------------------------------------
\* Claims on the embedded backend: instances and the environment registry
\* ------------------------------------------------------------------------

\* the stored bytes of a key in the table behind instance i, None when absent
StoredAt(i, key) ==
    LET t == TableOf(instances[i])
    IN IF key \in DOMAIN t.data THEN Some(t.data[key]) ELSE None

\* C7: get_individual on an embedded instance returns NotFound iff the key is
\* absent from the table, UnprocessableEntity iff it is present and the parser
\* rejects the stored bytes, Ok iff it is present and the parser accepts them
\* (the tagging of the in-memory backend).
C7_EmbeddedTagging ==
    elast.op = "get_individual" =>
        LET stored == StoredAt(elast.inst, elast.key)
        IN /\ elast.res = NotFound <=> stored = None
           /\ elast.res = UnprocessableEntity
                 <=> (stored # None /\ ~parse_raw_is_ok(stored.val))
           /\ elast.res = Ok(Unit) <=> (stored # None /\ parse_raw_is_ok(stored.val))
           /\ elast.res = MemoryStorage_get_individual(
                              [individuals |-> RwLock_new(TableOf(instances[elast.inst]).data),
                               tickets     |-> RwLock_new(HashMap_new),
                               az          |-> RwLock_new(HashMap_new)],
                              "Individuals", elast.key, Individual_default).res

\* C8: at most one environment exists per directory, and any two instances
\* whose path strings denote the same directory hold the same handle.
C8_OneEnvironmentPerDirectory ==
    /\ \A e1, e2 \in 1..Len(environments) :
          environments[e1].dir = environments[e2].dir => e1 = e2
    /\ \A i, j \in 1..Len(instances) :
          Canonical(instances[i].path) = Canonical(instances[j].path)
              => instances[i].env = instances[j].env

\* the part of get_or_create_env that runs under the registry lock
Critical == {"lookup", "open", "insert"}

\* the handles given out for path string p: to instances and to threads that
\* are past get_or_create_env
HandlesFor(p) ==
    {instances[i].env : i \in {j \in 1..Len(instances) : instances[j].path = p}}
        \cup {env_local[t] : t \in {u \in Threads : pc[u] = "init_db" /\ path_arg[u] = p}}

\* C9: no two threads are inside the locked part of get_or_create_env at once;
\* for every path string the environment is opened at most once and inserted
\* at most once, exactly once as soon as a handle for it was given out, and
\* every handle given out for it is the registered one.
C9_CreationMutuallyExclusive ==
    /\ \A t1, t2 \in Threads : (pc[t1] \in Critical /\ pc[t2] \in Critical) => t1 = t2
    /\ \A t \in Threads : pc[t] \in Critical => envs_lock = t
    /\ \A p \in Paths :
          /\ opened[p] <= 1
          /\ inserted[p] <= opened[p]
          /\ HandlesFor(p) # {} =>
                /\ opened[p] = 1
                /\ inserted[p] = 1
                /\ HandlesFor(p) = {GLOBAL_ENVS[p]}

\* C9 witness: starting from an empty registry, both threads are in
\* LmdbInstance::new for the same path at once and hold the same handle.
C9_Witness ==
    /\ instances = << >>
    /\ \A t \in Threads : pc[t] = "init_db" /\ path_arg[t] = "/x"
    /\ env_local[1] = env_local[2]
    /\ opened["/x"] = 1

\* the get of elast went through an instance on the directory of a write
\* that returned true through another instance
ReadAfterWriteByOther ==
    /\ elast.op = "get"
    /\ elast.T = "Vec<u8>"
    /\ LET w == last_write[environments[instances[elast.inst].env].dir][elast.key]
       IN w # None /\ w.val.by # elast.inst

LastWriteRead == last_write[environments[instances[elast.inst].env].dir][elast.key].val

EngineFailed(faults) == faults[Len(faults)] # "ok"

C11_CreationRetriesUntilOpened ==
    [][/\ \A t \in Threads : pc[t] = "open" =>
             \/ /\ pc'[t] = "open"
                /\ env_local'[t] = env_local[t]
                /\ GLOBAL_ENVS' = GLOBAL_ENVS
                /\ environments' = environments
             \/ /\ pc'[t] = "insert"
                /\ environments' = Append(environments,
                                          [path |-> path_arg[t],
                                           dir |-> Canonical(path_arg[t])])
                /\ env_local'[t] = Len(environments')
       /\ \A t \in Threads : pc'[t] = "init_db" =>
             /\ env_local'[t] \in 1..Len(environments')
             /\ path_arg'[t] \in DOMAIN GLOBAL_ENVS'
             /\ GLOBAL_ENVS'[path_arg'[t]] = env_local'[t]]_vars

\* C11 witness: the only call made so far failed an open, tried again, and
\* returned the environment it then opened and registered.
C11_Witness ==
    /\ open_failures = 1
    /\ \A t \in Threads : pc[t] = "idle"
    /\ Len(instances) = 1
    /\ Len(environments) = 1
    /\ GLOBAL_ENVS[instances[1].path] = instances[1].env

\* C12: every get, get_individual, put, remove and count on a constructed
\* instance returns after asking the engine for at most two transactions; a
\* read or count whose read_txn or open_database failed makes exactly one more
\* attempt and then returns whatever the second attempt gives; a write makes
\* one attempt.
C12_AtMostTwoAttempts ==
    elast.op # "none" =>
       /\ elast.txns \in {1, 2}
       /\ Len(elast.faults) = elast.txns
       /\ elast.op \in {"get", "get_individual", "count"} /\ elast.faults[1] \in {"txn_err", "open_err"}
             => elast.txns = 2
       /\ elast.op \in {"get", "get_individual"} /\ elast.txns = 2
             /\ elast.faults[2] \in {"txn_err", "open_err"}
             => elast.res \in {None, NotFound}
       /\ elast.op = "count" /\ elast.txns = 2 /\ elast.faults[2] \in {"txn_err", "open_err"}
             => elast.res = 0
       /\ elast.op \in {"put", "remove"} => elast.txns = 1

C12_Witness ==
    /\ elast.op = "count" /\ elast.txns = 2 /\ elast.faults = <<"txn_err", "open_err">>
    /\ calls = MaxCalls
    /\ \E i \in 1..Len(instances) : instances[i].read_counter = 2

\* every engine answer the last Storage call consumed was a failed read_txn /
\* write_txn or a failed open_database
AllTransient ==
    /\ slast.op # "none"
    /\ \A n \in 1..Len(slast.faults) : slast.faults[n] \in {"txn_err", "open_err"}

\* C13: a get_value, get_raw_value, get_individual, put_value, put_raw_value
\* or remove_value on the LMDBStorage whose every attempt failed at
\* transaction begin or table open returns Error(message).
C13_TransientFailureIsError ==
    AllTransient /\ slast.op # "count" => slast.res.tag = "Error"

\* C14: a put or remove on an instance whose commit failed because the map
\* is full is tried a second time (after the size bound was raised), so it
\* asks the engine for two write transactions; after any other commit failure
\* it returns false having asked for one.
C14_MapFullGrowsAndRetries ==
    elast.op \in {"put", "remove"} =>
       /\ elast.faults[1] = "map_full" /\ TableOf(instances[elast.inst]).created
             /\ (elast.op = "remove" => elast.key \in DOMAIN TableOf(instances[elast.inst]).data)
             => elast.txns = 2
       /\ elast.faults[1] = "commit_err" => elast.txns = 1 /\ elast.res = FALSE

\* the read counter after n more attempts, as C15 states it
Counted(c, max, n) ==
    LET one(x) == IF x + 1 > max THEN 0 ELSE x + 1
    IN IF n = 1 THEN one(c) ELSE one(one(c))

ReadOps == {"get_individual", "get_value", "get_raw_value"}

\* C15: the read counter of every instance of the LMDBStorage stays within
\* 0..max_read_counter; a read moves the counter of the instance it went to
\* by one per attempt, to 0 instead of above the maximum, and moves no other
\* counter; the instance keeps its environment, and a read whose last attempt
\* the engine served returns the stored value whatever the counter did.
C15_ReadCounterBounded ==
    /\ [](\A ns \in StorageId :
             LET i == lmdb_storage[get_db_instance(ns)]
             IN i.read_counter \in 0..i.max_read_counter)
    /\ [][\A ns \in StorageId :
             LET a == lmdb_storage[get_db_instance(ns)]
                 b == lmdb_storage'[get_db_instance(ns)]
             IN /\ b.env = a.env /\ b.max_read_counter = a.max_read_counter
                /\ b.read_counter = IF slast'.op \in ReadOps /\ slast'.storage = ns
                                    THEN Counted(a.read_counter, a.max_read_counter, slast'.txns)
                                    ELSE a.read_counter
                /\ (/\ slast'.op = "get_raw_value" /\ slast'.storage = ns
                    /\ slast'.faults[slast'.txns] = "ok"
                    /\ lmdb_tables[a.env].created
                    /\ slast'.key \in DOMAIN lmdb_tables[a.env].data)
                   => slast'.res = Ok(lmdb_tables[a.env].data[slast'.key])]_vars

C15_Witness ==
    /\ slast.op = "get_raw_value" /\ slast.storage = "Individuals"
    /\ slast.txns = 2 /\ slast.res.tag = "Ok"
    /\ lmdb_storage.individuals_db.read_counter = 0

\* C16: the threshold of every instance of the LMDBStorage is the n of the
\* Some(n) that LMDBStorage::new was given, and 1000 when it was given None;
\* no read counter stands above it.
C16_ThresholdConfigurable ==
    \A ns \in StorageId :
       LET i == lmdb_storage[get_db_instance(ns)]
           n == IF reopen_arg.tag = "Some" THEN reopen_arg.val ELSE 1000
       IN i.max_read_counter = n /\ i.read_counter <= n

\* the table the last Storage call went to
LastTable == lmdb_tables[lmdb_storage[get_db_instance(slast.storage)].env]

\* the engine failed attempt n of the last count: at read_txn, at
\* open_database, or at db.len on the table it opened
CountFailed(n) ==
    \/ slast.faults[n] \in {"txn_err", "open_err"}
    \/ slast.faults[n] = "len_err" /\ LastTable.created

\* C17: Storage::count on the LMDBStorage always returns Ok; it makes a second
\* attempt exactly when the first failed and never a third; it returns Ok(0)
\* when both attempts failed, whatever the table holds, and otherwise
\* Ok(number of keys in the table), which is 0 for an empty namespace.
C17_CountReportsZeroOnFailure ==
    slast.op = "count" =>
       /\ slast.res.tag = "Ok"
       /\ slast.txns \in {1, 2}
       /\ slast.txns = 2 <=> CountFailed(1)
       /\ slast.res.val = IF CountFailed(slast.txns) THEN 0
                          ELSE Cardinality(DOMAIN LastTable.data)

C17_Witness ==
    /\ slast.op = "count" /\ slast.faults = <<"txn_err", "len_err">>
    /\ slast.res = Ok(0)
    /\ Cardinality(DOMAIN LastTable.data) = 1

\* C18: on the StorageROClient, whether it is ready or not, put_value,
\* put_raw_value and remove_value return Error("Remote storage is read-only")
\* and count, get_value and get_raw_value return Error("Remote storage does
\* not support <name>"); the call performs no socket operation and leaves
\* is_ready as it was.
C18_RemoteRefusals ==
    /\ rlast.op \in {"put_value", "put_raw_value", "remove_value"} =>
          /\ rlast.res = Error("Remote storage is read-only")
          /\ rlast.io = << >> /\ client.is_ready = rlast.was
    /\ rlast.op \in {"count", "get_value", "get_raw_value"} =>
          /\ rlast.res = Error("Remote storage does not support " \o rlast.op)
          /\ rlast.io = << >> /\ client.is_ready = rlast.was

C18_Witness ==
    /\ rlast.op = "put_value" /\ rlast.was /\ client.is_ready
    /\ rlast.res.tag = "Error" /\ remote_calls = 2

\* a socket operation of the last call failed
ConnectionFailed == \E n \in 1..Len(rlast.io) : ~rlast.io[n].ok

\* C19: a get_individual on the StorageROClient during which the dial, the
\* send or the receive failed returns NotReady and leaves is_ready false, so
\* that the next get_individual dials before it sends.
C19_FailureDowngradesReadiness ==
    rlast.op = "get_individual" /\ ConnectionFailed =>
       rlast.res = NotReady /\ ~client.is_ready

\* the socket operations of the last call, by name
IoOps == [n \in 1..Len(rlast.io) |-> rlast.io[n].op]

\* C20: constructing the StorageROClient performs no socket operation and
\* leaves is_ready false; a get_individual made while is_ready is false dials
\* the client's address first and, when the dial succeeds, is_ready is true
\* afterwards and the request is sent; a get_individual made while is_ready is
\* true sends without dialing; a get_individual whose dial fails returns
\* NotReady having neither sent nor waited for a reply.
C20_LazyDialCachedReadiness ==
    /\ rlast.op = "new" => rlast.io = << >> /\ ~client.is_ready
    /\ rlast.op = "get_individual" =>
          /\ ~rlast.was =>
                /\ rlast.io[1] \in {[op |-> "dial", addr |-> client.addr, ok |-> b] : b \in BOOLEAN}
                /\ client.is_ready = rlast.io[1].ok
                /\ rlast.io[1].ok => Len(IoOps) >= 2 /\ IoOps[2] = "send"
                /\ ~rlast.io[1].ok => rlast.res = NotReady /\ IoOps = <<"dial">>
          /\ rlast.was => IoOps \in {<<"send">>, <<"send", "recv">>}

C20_Witness ==
    /\ rlast.op = "get_individual" /\ rlast.was /\ rlast.res = Ok(Unit)
    /\ IoOps = <<"send", "recv">> /\ remote_calls = 2

\* the last call was a get_individual that received a reply
GotReply ==
    /\ rlast.op = "get_individual" /\ Len(rlast.io) >= 1
    /\ rlast.io[Len(rlast.io)].op = "recv" /\ rlast.io[Len(rlast.io)].ok

\* the bytes of that reply
Reply == rlast.io[Len(rlast.io)].got.msg

\* the outcome and the caller's object after a reply whose payload is raw
Interpreted(raw) ==
    /\ rlast.iraw = Some(raw)
    /\ rlast.res = IF parse_raw_is_ok(raw) THEN Ok(Unit) ELSE UnprocessableEntity

NotUtf8(w, ns) ==
    {k \in Keys : /\ written[w][ns][k] # None
                  /\ written[w][ns][k].val.api = "put_raw_value"
                  /\ ~from_utf8(written[w][ns][k].val.val).ok}

\* C22: with the in-memory backend, on a key whose stored bytes were written
\* by put_raw_value and are not valid UTF-8, get_value returns Error (not
\* NotFound) and leaves the store as it was, and get_raw_value returns Ok
\* with exactly those bytes.
C22_InvalidUtf8IsError ==
    \A w \in Wrappers : ~IsEmpty(w, Cur(w)) =>
        \A ns \in StorageId : \A k \in NotUtf8(w, ns) :
            \A got \in {WGetValue(w, Cur(w), ns, k)} :
                /\ got.res.tag = "Error"
                /\ got.st = Cur(w)
                /\ WGetRawValue(w, Cur(w), ns, k).res = Ok(written[w][ns][k].val.val)

C22_Witness ==
    /\ last.op = "get_value"
    /\ last.out["generic"].res = Error("Invalid UTF-8 data")
    /\ \E ns \in StorageId : NotUtf8("generic", ns) # {}

\* a MemoryStorage holding what the tables of the LMDBStorage hold
AsMemory(self, tb) ==
    [individuals |-> RwLock_new(tb[self.individuals_db.env].data),
     tickets     |-> RwLock_new(tb[self.tickets_db.env].data),
     az          |-> RwLock_new(tb[self.az_db.env].data)]

\* outcome l of an operation on the LMDBStorage and outcome m of the same
\* operation on the MemoryStorage with the same contents: same tag and
\* payload, same contents afterwards
SameOutcome(l, m) == l.res = m.res /\ AsMemory(l.st, l.tb) = m.st

\* C23: whenever the three tables of the LMDBStorage exist, each of the seven
\* operations, answered by a fault-free engine, returns the outcome the same
\* operation returns on a MemoryStorage with the same contents and leaves the
\* same contents; so from empty stores every sequence of operations returns
\* the same outcomes in both.
C23_EmbeddedMatchesMemory ==
    (\A e \in 1..3 : lmdb_tables[e].created) =>
       \A reference \in {AsMemory(lmdb_storage, lmdb_tables)} :
          \A ns \in StorageId, k \in EnvKeys :
             /\ SameOutcome(LMDBStorage_get_value(lmdb_storage, lmdb_tables, ns, k, "ok", "ok"),
                            MemoryStorage_get_value(reference, ns, k))
             /\ SameOutcome(LMDBStorage_get_raw_value(lmdb_storage, lmdb_tables, ns, k, "ok", "ok"),
                            MemoryStorage_get_raw_value(reference, ns, k))
             /\ SameOutcome(LMDBStorage_remove_value(lmdb_storage, lmdb_tables, ns, k, "ok"),
                            MemoryStorage_remove_value(reference, ns, k))
             /\ SameOutcome(LMDBStorage_count(lmdb_storage, lmdb_tables, ns, "ok", "ok"),
                            MemoryStorage_count(reference, ns))
             /\ \A v \in StrVals :
                   SameOutcome(LMDBStorage_put_value(lmdb_storage, lmdb_tables, ns, k, v, "ok"),
                               MemoryStorage_put_value(reference, ns, k, v))
             /\ \A v \in RawVals :
                   SameOutcome(LMDBStorage_put_raw_value(lmdb_storage, lmdb_tables, ns, k, v, "ok"),
                               MemoryStorage_put_raw_value(reference, ns, k, v))
             /\ \A iraw \in IrawVals :
                   \A l \in {LMDBStorage_get_individual(lmdb_storage, lmdb_tables, ns, k, iraw,
                                                        "ok", "ok")} :
                      \A m \in {MemoryStorage_get_individual(reference, ns, k, iraw)} :
                         l.res = m.res /\ l.iraw = m.iraw

\* C24: a call of one of the seven operations on a namespace whose lock is
\* poisoned returns NotReady, does not panic, and leaves the store unchanged.
C24_PoisonedIsNotReady ==
    /\ mlast.op \in {"get_individual", "get_value", "get_raw_value", "put_value",
                     "put_raw_value", "remove_value", "count"}
    /\ mem[get_storage(mlast.storage)].poisoned
    => mlast.res = NotReady /\ mlast.same

\* The deprecated methods, and the current operation each one stands for
AliasOps == {"get_individual_from_db", "get_v", "get_raw", "put_kv", "put_kv_raw", "remove"}

\* the current operation behind the deprecated method last called, applied to
\* the state and the arguments of that call
Counterpart ==
    CASE mlast.op = "get_individual_from_db" ->
            MemoryStorage_get_individual(mlast.pre, mlast.storage, mlast.args.id, mlast.args.iraw)
      [] mlast.op = "get_v" ->
            MemoryStorage_get_value(mlast.pre, mlast.storage, mlast.args.key)
      [] mlast.op = "get_raw" ->
            MemoryStorage_get_raw_value(mlast.pre, mlast.storage, mlast.args.key)
      [] mlast.op = "put_kv" ->
            MemoryStorage_put_value(mlast.pre, mlast.storage, mlast.args.key, mlast.args.val)
      [] mlast.op = "put_kv_raw" ->
            MemoryStorage_put_raw_value(mlast.pre, mlast.storage, mlast.args.key, mlast.args.val)
      [] mlast.op = "remove" ->
            MemoryStorage_remove_value(mlast.pre, mlast.storage, mlast.args.key)

\* r is the projection of outcome c that the deprecated method op returns
Projects(op, r, c) ==
    CASE op = "get_v"   -> IF is_ok(c) THEN r = Some(c.val) ELSE r = None
      [] op = "get_raw" -> IF is_ok(c) THEN r = c.val ELSE r = << >>
      [] op \in {"put_kv", "put_kv_raw", "remove"} -> r = is_ok(c)
      [] op = "get_individual_from_db" -> r = c

\* the VStorage wrappers the deprecated methods of VStorage are compared on:
\* an empty one and one that holds the current backend
Wrapped == {VStorage_none, VStorage_new([vtable |-> "MemoryStorage", obj |-> mem])}

\* C25: a deprecated method has the effect of its current counterpart on the
\* store and returns the projection of the counterpart's outcome (trait Storage
\* and VStorage alike), and a payload written through one family of names is
\* read back through the other.
C25_AliasesDelegate ==
    /\ mlast.op \in AliasOps =>
          \A c \in {Counterpart} :
             /\ mem = c.st
             /\ Projects(mlast.op, mlast.res, c.res)
             /\ mlast.op = "get_individual_from_db" => mlast.iraw = c.iraw
    /\ \A w \in Wrapped, ns \in StorageId, k \in Keys :
          /\ \A a \in {VStorage_get_v(w, ns, k)}, c \in {VStorage_get_value(w, ns, k)} :
                a.st = c.st /\ Projects("get_v", a.res, c.res)
          /\ \A a \in {VStorage_get_raw(w, ns, k)}, c \in {VStorage_get_raw_value(w, ns, k)} :
                a.st = c.st /\ Projects("get_raw", a.res, c.res)
          /\ \A a \in {VStorage_remove(w, ns, k)}, c \in {VStorage_remove_value(w, ns, k)} :
                a.st = c.st /\ Projects("remove", a.res, c.res)
          /\ \A v \in StrVals :
                \A a \in {VStorage_put_kv(w, ns, k, v)}, c \in {VStorage_put_value(w, ns, k, v)} :
                   a.st = c.st /\ Projects("put_kv", a.res, c.res)
          /\ \A v \in RawVals :
                \A a \in {VStorage_put_kv_raw(w, ns, k, v)},
                   c \in {VStorage_put_raw_value(w, ns, k, v)} :
                   a.st = c.st /\ Projects("put_kv_raw", a.res, c.res)
          /\ \A iraw \in IrawVals :
                VStorage_get_individual_from_db(w, ns, k, iraw)
                   = VStorage_get_individual_from_storage(w, ns, k, iraw)
    /\ \A ns \in StorageId, k \in Keys :
          /\ \A v \in StrVals :
                /\ \A a \in {Storage_put_kv(mem, ns, k, v)} :
                      a.res => MemoryStorage_get_value(a.st, ns, k).res = Ok(v)
                /\ \A c \in {MemoryStorage_put_value(mem, ns, k, v)} :
                      is_ok(c.res) => Storage_get_v(c.st, ns, k).res = Some(v)
          /\ \A v \in RawVals :
                /\ \A a \in {Storage_put_kv_raw(mem, ns, k, v)} :
                      a.res => MemoryStorage_get_raw_value(a.st, ns, k).res = Ok(v)
                /\ \A c \in {MemoryStorage_put_raw_value(mem, ns, k, v)} :
                      is_ok(c.res) => Storage_get_raw(c.st, ns, k).res = v

\* get_v has returned a payload that an earlier put stored
C25_Witness ==
    /\ mlast.op = "get_v"
    /\ mlast.res = Some(<<233>>)
    /\ mem_calls >= 2

\* the five variants of StorageResult
Tags == {"Ok", "NotFound", "NotReady", "UnprocessableEntity", "Error"}

\* r has the shape of exactly one variant
OneVariant(r) ==
    /\ r.tag \in Tags
    /\ DOMAIN r = CASE r.tag = "Ok"    -> {"tag", "val"}
                    [] r.tag = "Error" -> {"tag", "msg"}
                    [] OTHER           -> {"tag"}

Combinators == {"map", "and_then"}

\* C26: a StorageResult is one of the five variants; map and and_then return a
\* non-success receiver as it is (the same tag, the same message) without
\* calling the closure; on Ok(x) map returns Ok(f(x)) and and_then returns f(x),
\* calling f once; is_error is the negation of is_ok.
C26_CombinatorsPreserveFailure ==
    /\ OneVariant(result)
    /\ result_last.op \in Combinators =>
          /\ OneVariant(result_last.self) /\ result = result_last.out
          /\ result_last.self.tag # "Ok" =>
                /\ result_last.out = result_last.self
                /\ result_last.calls = 0
          /\ result_last.self.tag = "Ok" =>
                /\ result_last.calls = 1
                /\ result_last.op = "map" =>
                      result_last.out = Ok(result_last.f[result_last.self.val])
                /\ result_last.op = "and_then" =>
                      result_last.out = result_last.f[result_last.self.val]
    /\ result_last.op = "is_error" => result_last.out = ~is_ok(result_last.self)
    /\ result_last.op = "is_ok" => result_last.out = (result_last.self.tag = "Ok")
    /\ is_error(result) = ~is_ok(result)

\* map was applied to an Error(m) and returned it
C26_Witness ==
    /\ result_last.op = "map"
    /\ result_last.self = Error("Invalid UTF-8 data")
    /\ result_last.out = Error("Invalid UTF-8 data")

\* C27: a get_with_txn(txn, k) in a read transaction begun after put(k, b)
\* committed (b the last write of k committed before the transaction began)
\* returns Some(bytes) equal to b, of the length of b; it returns None for a
\* key absent when the transaction began.
C27_ZeroCopyReadsCommitted ==
    zc_last.op = "get_with_txn" =>
       \A b \in {zc_begun[zc_last.key]} :
          IF b = None THEN zc_last.res = None
          ELSE /\ zc_last.res.tag = "Some"
               /\ zc_last.res.val = b.val
               /\ Len(zc_last.res.val) = Len(b.val)

\* What get_with_txn does: the same unless the engine fails the read
\* (open_database or db.get returns an error), in which case it returns None;
\* while the transaction lives, every read the engine serves returns the bytes
\* committed when it began, whatever is committed in the meantime, so two
\* served reads return equal data.
ZeroCopyReadsSnapshot ==
    /\ zc_last.op = "get_with_txn" =>
          \A b \in {zc_begun[zc_last.key]} :
             IF b = None \/ zc_last.f # "ok" THEN zc_last.res = None
             ELSE /\ zc_last.res.tag = "Some"
                  /\ zc_last.res.val = b.val
                  /\ Len(zc_last.res.val) = Len(b.val)
    /\ ro_txn # None =>
          \A k \in ZcKeys :
             /\ get_with_txn(zc_table, ro_txn.val, k, "ok") = zc_begun[k]
             /\ \A f \in TxnReadFaults \ {"ok"} :
                   get_with_txn(zc_table, ro_txn.val, k, f) = None

\* a read served inside a transaction returned the bytes committed before it
\* began, after another payload was committed for the key
ZeroCopySnapshotRead ==
    /\ zc_last.op = "get_with_txn"
    /\ zc_last.f = "ok"
    /\ zc_last.res.tag = "Some"
    /\ zc_written[zc_last.key] # zc_last.res

\* the configuration the last selector called asked for
LastSelected == selected[Len(selected)]

\* the kind of configuration a generic build method accepts
MatchingKind(op) ==
    CASE op = "build_memory_generic" -> "Memory"
      [] op = "build_lmdb_generic"   -> "Lmdb"
      [] op = "build_remote_generic" -> "Remote"

IsInvalidConfiguration(r) == r.tag = "Err" /\ r.err.variant = "InvalidConfiguration"

\* C28: build returns Err(InvalidConfiguration) when no selector was called
\* and Ok otherwise; the builder holds the configuration of the last selector
\* called, which is the one built; build_*_generic returns Ok for a
\* configuration of its kind and Err(InvalidConfiguration) otherwise.
C28_BuilderLastSelectorWins ==
    /\ builder # None =>
          builder.val.config = IF selected = << >> THEN None ELSE Some(LastSelected)
    /\ built # None /\ built.val.op = "build" =>
          IF selected = << >> THEN IsInvalidConfiguration(built.val.res)
          ELSE /\ built.val.res.tag = "Ok"
               /\ built.val.res = create_storage_from_config(LastSelected)
               /\ built.val.res.val.vtable =
                     CASE LastSelected.kind = "Memory" -> "MemoryStorage"
                       [] LastSelected.kind = "Lmdb"   -> "LMDBStorage"
                       [] LastSelected.kind = "Remote" -> "StorageROClient"
    /\ built # None /\ built.val.op # "build" =>
          IF selected # << >> /\ LastSelected.kind = MatchingKind(built.val.op)
          THEN built.val.res.tag = "Ok"
          ELSE IsInvalidConfiguration(built.val.res)

\* a generic build was refused after two selectors, the first of its kind
C28_Witness ==
    /\ built # None
    /\ built.val.op = "build_memory_generic"
    /\ Len(selected) = 2
    /\ selected[1].kind = "Memory"
    /\ selected[2].kind = "Lmdb"
    /\ IsInvalidConfiguration(built.val.res)

\* the instance of namespace ns in LMDBStorage struct st is Open: it holds the
\* handle of an environment whose default table exists
IsOpen(st, tb, ns) ==
    /\ st[get_db_instance(ns)].env \in DOMAIN tb
    /\ tb[st[get_db_instance(ns)].env].created

\* the table behind namespace ns
NsTable(ns) == lmdb_tables[lmdb_storage[get_db_instance(ns)].env]

\* every operation on namespace ns that the engine serves succeeds in the
\* current state
HealthyCallsSucceed(ns) ==
    \A k \in EnvKeys :
       /\ \A v \in RawVals :
             \A o \in {LMDBStorage_put_raw_value(lmdb_storage, lmdb_tables, ns, k, v, "ok")} :
                /\ o.res = Ok(Unit)
                /\ LMDBStorage_get_raw_value(o.st, o.tb, ns, k, "ok", "ok").res = Ok(v)
       /\ \A v \in StrVals :
             LMDBStorage_put_value(lmdb_storage, lmdb_tables, ns, k, v, "ok").res = Ok(Unit)
       /\ \A f1 \in {"ok", "txn_err", "open_err"} :
             /\ LMDBStorage_get_raw_value(lmdb_storage, lmdb_tables, ns, k, f1, "ok").res
                   = IF k \in DOMAIN NsTable(ns).data THEN Ok(NsTable(ns).data[k]) ELSE NotFound
             /\ LMDBStorage_count(lmdb_storage, lmdb_tables, ns, f1, "ok").res
                   = Ok(HashMap_len(NsTable(ns).data))
       /\ k \in DOMAIN NsTable(ns).data =>
             LMDBStorage_remove_value(lmdb_storage, lmdb_tables, ns, k, "ok").res = Ok(Unit)

\* C29: an Open instance stays Open whatever happens: every step (a served
\* call, a call the engine failed, a counter reset) leaves each instance its
\* environment handle and path and leaves an existing table existing, and in
\* every state, so also after a failed call, a call that the engine serves
\* succeeds.
C29_FailureIsPerCall ==
    /\ [](\A ns \in StorageId :
             IsOpen(lmdb_storage, lmdb_tables, ns) => HealthyCallsSucceed(ns))
    /\ [][\A ns \in StorageId :
             /\ lmdb_storage'[get_db_instance(ns)].env = lmdb_storage[get_db_instance(ns)].env
             /\ lmdb_storage'[get_db_instance(ns)].path = lmdb_storage[get_db_instance(ns)].path
             /\ IsOpen(lmdb_storage, lmdb_tables, ns) => IsOpen(lmdb_storage', lmdb_tables', ns)]_vars

\* the last call was a read of a stored key that the engine failed on both
\* attempts, on an instance whose counter was reset, and a read that the engine
\* serves now returns the stored bytes
C29_Witness ==
    /\ slast.op = "get_raw_value" /\ slast.storage = "Individuals"
    /\ slast.txns = 2 /\ slast.faults[2] # "ok"
    /\ slast.res = NotFound
    /\ lmdb_storage.individuals_db.read_counter = 0
    /\ IsOpen(lmdb_storage, lmdb_tables, "Individuals")
    /\ slast.key \in DOMAIN NsTable("Individuals").data
    /\ LMDBStorage_get_raw_value(lmdb_storage, lmdb_tables, "Individuals", slast.key,
                                 "ok", "ok").res.tag = "Ok"

\* C30: an instance is Open by its first access at the latest: a put that the
\* engine serves (its write transaction, table open, db.put and commit all
\* succeed) returns true, and the table exists afterwards, also when the
\* create_database of LmdbInstance::new was not committed.
C30_OpenOnFirstAccess ==
    elast.op = "put" /\ elast.faults = <<"ok">> =>
       /\ elast.res = TRUE
       /\ tables[environments[instances[elast.inst].env].dir].created

\* the Arc<Env> clones of environment e alive: those in the registry, those in
\* instances not dropped, and those threads inside LmdbInstance::new hold
StrongCount(e) ==
    Cardinality({p \in DOMAIN GLOBAL_ENVS : GLOBAL_ENVS[p] = e})
       + Cardinality({i \in 1..Len(instances) : i \notin dropped /\ instances[i].env = e})
       + Cardinality({t \in Threads : pc[t] \in {"insert", "init_db"} /\ env_local[t] = e})

\* C31: the registry only grows: a path it maps to an environment is mapped
\* to the same environment in every later state, whatever is constructed or
\* dropped, and a registered environment always has an owner (it is not closed).
C31_RegistryOnlyGrows ==
    /\ [](\A p \in DOMAIN GLOBAL_ENVS :
             GLOBAL_ENVS[p] \in 1..Len(environments) /\ StrongCount(GLOBAL_ENVS[p]) >= 1)
    /\ [][\A p \in DOMAIN GLOBAL_ENVS :
             p \in DOMAIN GLOBAL_ENVS' /\ GLOBAL_ENVS'[p] = GLOBAL_ENVS[p]]_vars

\* every instance constructed has been dropped, and the registry still holds
\* the only clone of the environment of the first
C31_Witness ==
    /\ Len(instances) >= 2
    /\ dropped = 1..Len(instances)
    /\ \A t \in Threads : pc[t] = "idle"
    /\ instances[1].path \in DOMAIN GLOBAL_ENVS
    /\ GLOBAL_ENVS[instances[1].path] = instances[1].env
    /\ StrongCount(instances[1].env) = 1

\* the three operations that write
WriteOps == {"put_value", "put_raw_value", "remove_value"}

\* C32: an LMDBStorage constructed with StorageMode::ReadOnly behaves as one
\* constructed with ReadWrite: after every sequence of calls, given the same
\* engine answers, the last outcome, the struct and the contents of every table
\* are equal, and a put_value, put_raw_value or remove_value that the engine
\* serves is accepted (Ok for the puts, never NotReady or Error for the remove).
C32_ModeHasNoEffect ==
    /\ lmdb_storage = rw_storage
    /\ lmdb_tables = rw_tables
    /\ slast = rw_last
    /\ (/\ mode_arg = "ReadOnly"
        /\ slast.op \in WriteOps
        /\ slast.faults = <<"ok">>
        /\ lmdb_tables[lmdb_storage[get_db_instance(slast.storage)].env].created)
       => /\ slast.op \in {"put_value", "put_raw_value"}
             => /\ slast.res = Ok(Unit)
                /\ slast.key \in DOMAIN
                      lmdb_tables[lmdb_storage[get_db_instance(slast.storage)].env].data
          /\ slast.op = "remove_value"
             => /\ slast.res \in {Ok(Unit), NotFound}
                /\ slast.key \notin DOMAIN
                      lmdb_tables[lmdb_storage[get_db_instance(slast.storage)].env].data

\* constructed with ReadOnly, a put_value was accepted and a remove_value of
\* that key has then returned Ok and emptied the table again
C32_Witness ==
    /\ mode_arg = "ReadOnly"
    /\ lmdb_calls = 2
    /\ slast.op = "remove_value"
    /\ slast.res = Ok(Unit)
    /\ slast.storage = "Individuals"
    /\ lmdb_tables[lmdb_storage.individuals_db.env].data = HashMap_new
    /\ rw_tables = lmdb_tables

\* the socket operations of kind op among io
IoOf(io, op) == SelectSeq(io, LAMBDA x : x.op = op)

\* the last call was a get_individual on a connected client: is_ready was
\* true, or the dial the call made succeeded
ConnectedCall ==
    /\ rlast.op = "get_individual"
    /\ \/ rlast.was
       \/ Len(rlast.io) >= 1 /\ rlast.io[1].op = "dial" /\ rlast.io[1].ok

\* the request the protocol prescribes: the tag of the namespace, a comma, the key
SentAs(storage, key) ==
    request(storage, key) = (IF storage = "Tickets" THEN "t" ELSE "i") \o "," \o key

\* C33 as stated: a connected get_individual sends exactly one request and
\* waits for exactly one reply per call, the request being `t,`key for Tickets
\* and `i,`key for Individuals and Az.
C33_OneRequestOneReply ==
    ConnectedCall
    => /\ Len(IoOf(rlast.io, "send")) = 1
       /\ Len(IoOf(rlast.io, "recv")) = 1
       /\ IoOf(rlast.io, "send")[1].msg = request(rlast.storage, rlast.id)
       /\ SentAs(rlast.storage, rlast.id)

\* C33: a connected get_individual calls send exactly once per call, with
\* `t,`key for Tickets and `i,`key for Individuals and Az (so Az and
\* Individuals give the same request), and waits for exactly one reply, after
\* the send, if the send was accepted and for none if it failed.
C33_OneSendThenOneReply ==
    /\ \A key \in Keys :
          /\ request("Az", key) = request("Individuals", key)
          /\ request("Tickets", key) # request("Individuals", key)
          /\ \A storage \in StorageId : SentAs(storage, key)
    /\ ConnectedCall
       => \A sends \in {IoOf(rlast.io, "send")}, recvs \in {IoOf(rlast.io, "recv")} :
             /\ Len(sends) = 1
             /\ sends[1].msg = request(rlast.storage, rlast.id)
             /\ Len(recvs) = (IF sends[1].ok THEN 1 ELSE 0)
             /\ sends[1].ok => rlast.io[Len(rlast.io)].op = "recv"
             /\ ~sends[1].ok => rlast.res = NotReady

\* an Az lookup on a client that was already connected: one send of `i,`key,
\* one reply received
C33_Witness ==
    /\ rlast.op = "get_individual"
    /\ rlast.was
    /\ rlast.storage = "Az"
    /\ Len(rlast.io) = 2
    /\ rlast.io[1].op = "send" /\ rlast.io[1].ok
    /\ rlast.io[1].msg = "i," \o rlast.id
    /\ rlast.io[2].op = "recv" /\ rlast.io[2].ok

\* the five outcome tags
OutcomeTags == {"Ok", "NotFound", "NotReady", "UnprocessableEntity", "Error"}

\* C34: on the TTStorage get_value and get_raw_value, like get_individual,
\* return an outcome tag for every successful select reply, NotFound when the
\* reply carries no data (the key is absent), whatever the length of the data.
C34_TTLookupsReturnATag ==
    (tt_last.op \in {"get_individual", "get_value", "get_raw_value"} /\ tt_last.reply.ok)
    => /\ tt_last.res.tag \in OutcomeTags
       /\ tt_last.reply.data = << >> => tt_last.res = NotFound

\* the lookups return a tag, and the payload behind the header, for every
\* successful reply of five bytes or more
TTLookupsOfFullReplies ==
    (/\ tt_last.op \in {"get_individual", "get_value", "get_raw_value"}
     /\ tt_last.reply.ok
     /\ Len(tt_last.reply.data) >= 5)
    => /\ tt_last.res.tag \in OutcomeTags
       /\ tt_last.op = "get_raw_value"
          => tt_last.res = Ok(SubSeq(tt_last.reply.data, 6, Len(tt_last.reply.data)))

\* the table a namespace of the LMDBStorage is kept in
RemoveTable(storage) == lmdb_tables[lmdb_storage[get_db_instance(storage)].env]

\* C35: on the LMDBStorage remove_value returns Ok only if the key was present
\* and its deletion committed, and NotFound in every other case (key absent,
\* write_txn, open_database, delete or commit failed, table missing), never
\* Error; with NotFound the store is unchanged, with Ok exactly the key is gone
\* from the table of the namespace. Stated of the call in every reachable
\* state, and of every remove_value step.
C35_RemoveIsOkOrNotFound ==
    /\ [](\A storage \in StorageId, key \in EnvKeys, f \in WriteFaults :
             \A o \in {LMDBStorage_remove_value(lmdb_storage, lmdb_tables, storage, key, f)} :
                /\ o.res \in {Ok(Unit), NotFound}
                /\ o.res = Ok(Unit)
                   <=> (/\ RemoveTable(storage).created
                        /\ key \in DOMAIN RemoveTable(storage).data
                        /\ f = "ok")
                /\ o.res = NotFound => o.tb = lmdb_tables
                /\ o.res = Ok(Unit)
                   => o.tb = [lmdb_tables EXCEPT
                                 ![lmdb_storage[get_db_instance(storage)].env].data =
                                     HashMap_remove(RemoveTable(storage).data, key)]
                /\ o.st = lmdb_storage)
    /\ [][(lmdb_calls' # lmdb_calls /\ slast'.op = "remove_value")
          => /\ slast'.res \in {Ok(Unit), NotFound}
             /\ slast'.res = Ok(Unit)
                <=> (/\ RemoveTable(slast'.storage).created
                     /\ slast'.key \in DOMAIN RemoveTable(slast'.storage).data
                     /\ slast'.faults = <<"ok">>)
             /\ slast'.res = NotFound => lmdb_tables' = lmdb_tables
             /\ slast'.res = Ok(Unit)
                => slast'.key \notin DOMAIN
                      lmdb_tables'[lmdb_storage[get_db_instance(slast'.storage)].env].data]_vars

\* a stored key whose removal failed at the commit: NotFound, and the key is
\* still in the table
C35_Witness ==
    /\ slast.op = "remove_value"
    /\ slast.faults = <<"commit_err">>
    /\ slast.res = NotFound
    /\ RemoveTable(slast.storage).created
    /\ slast.key \in DOMAIN RemoveTable(slast.storage).data

\* the frame of one get_individual with outcome o on the LMDBStorage, for a
\* caller's object iraw: untouched with NotFound / NotReady, the stored bytes
\* whenever the key is present; struct apart, nothing is written
GetIndividualFrame(o, storage, uri, iraw) ==
    /\ o.res \in {NotFound, NotReady} => o.iraw = iraw
    /\ (RemoveTable(storage).created /\ uri \in DOMAIN RemoveTable(storage).data)
       => /\ o.iraw = RemoveTable(storage).data[uri]
          /\ o.res \in {Ok(Unit), UnprocessableEntity}
    /\ o.tb = lmdb_tables

\* C36: get_individual leaves the caller's Individual untouched whenever it
\* returns NotFound or NotReady, sets its raw bytes to the stored bytes whenever
\* the key is present (also with UnprocessableEntity), and never modifies the store.
C36_GetIndividualFrame ==
    \A storage \in StorageId, uri \in EnvKeys, iraw \in IrawVals,
       f1 \in ReadFaults, f2 \in ReadFaults :
       GetIndividualFrame(
           LMDBStorage_get_individual(lmdb_storage, lmdb_tables, storage, uri, iraw, f1, f2),
           storage, uri, iraw)

\* the same for the calls whose first read attempt the engine serves
GetIndividualFrameWhenServed ==
    \A storage \in StorageId, uri \in EnvKeys, iraw \in IrawVals, f2 \in ReadFaults :
       GetIndividualFrame(
           LMDBStorage_get_individual(lmdb_storage, lmdb_tables, storage, uri, iraw, "ok", f2),
           storage, uri, iraw)

\* a stored payload the parser rejects has been put in place
GetIndividualUnprocessable ==
    \E storage \in StorageId, uri \in EnvKeys, iraw \in IrawVals :
       \A o \in {LMDBStorage_get_individual(lmdb_storage, lmdb_tables, storage, uri, iraw,
                                            "ok", "ok")} :
          o.res = UnprocessableEntity /\ o.iraw # iraw

\* thread t is creating an environment: in the open loop or about to insert
Creating(t) == pc[t] \in {"open", "insert"}

\* C37: the registry lock is held for the whole of environment creation, failed
\* opens and their sleeps included: while a thread is creating the environment
\* of a path it holds the lock; a thread that has called LmdbInstance::new for
\* any path, registered or not, stays at the lock for as long, and takes it
\* only when no thread is creating; the creating thread leaves the open loop
\* only with an opened environment and gives the lock back only with the
\* insert. The operations on constructed instances take no registry lock: each
\* of them can be made while a thread is creating.
C37_LockHeldThroughCreation ==
    /\ [](\A a \in Threads : Creating(a) => envs_lock = a)
    /\ [](\A a \in Threads : (Creating(a) /\ instances # << >>) =>
             /\ ENABLED InstGet(1, "Vec<u8>", "k", "ok", "ok")
             /\ ENABLED InstPut(1, "k", <<255>>, "ok")
             /\ ENABLED InstRemove(1, "k", "ok")
             /\ ENABLED InstCount(1, "ok", "ok"))
    /\ [][\A a \in Threads :
             /\ (pc[a] = "lock" /\ pc'[a] # "lock")
                => (envs_lock = 0 /\ \A b \in Threads : ~Creating(b))
             /\ Creating(a)
                => \A b \in Threads : (b # a /\ pc[b] = "lock") => pc'[b] = "lock"
             /\ (pc[a] = "open" /\ pc'[a] # "open")
                => /\ pc'[a] = "insert"
                   /\ Len(environments') = Len(environments) + 1
                   /\ environments'[env_local'[a]].path = path_arg[a]
                   /\ envs_lock' = a
             /\ (pc[a] = "open" /\ pc'[a] = "open" /\ open_failures' # open_failures)
                => envs_lock' = a
             /\ (Creating(a) /\ envs_lock' # a)
                => (pc[a] = "insert" /\ pc'[a] = "init_db"
                    /\ path_arg[a] \in DOMAIN GLOBAL_ENVS')]_vars

\* an open has failed and its thread is still in the loop, holding the lock,
\* while the other thread waits at the lock to construct an instance for a
\* path that is already registered, and an instance exists that can be used
C37_Witness ==
    \E a, b \in Threads :
       /\ a # b
       /\ pc[a] = "open"
       /\ open_failures >= 1
       /\ envs_lock = a
       /\ pc[b] = "lock"
       /\ path_arg[b] \in DOMAIN GLOBAL_ENVS
       /\ path_arg[b] # path_arg[a]
       /\ instances # << >>
       /\ ~ENABLED Lock(b)

\* the handle of field f of a constructed storage, and what it is a handle of
HandleOf(st, f) == IF st.engine = "lmdb" THEN st.obj[f].env ELSE st.obj[f].db

OpenedBy(st, f) ==
    IF st.engine = "lmdb" THEN environments[HandleOf(st, f)] ELSE databases[HandleOf(st, f)]

\* the three instances of every constructed storage are bound to three
\* distinct path strings (registry entries), handles and directories
NamespacesApart ==
    \A n \in 1..Len(storages) :
       \A f, g \in {"individuals_db", "tickets_db", "az_db"} :
          f # g => /\ storages[n].obj[f].path # storages[n].obj[g].path
                   /\ HandleOf(storages[n], f) # HandleOf(storages[n], g)
                   /\ OpenedBy(storages[n], f).dir # OpenedBy(storages[n], g).dir
                   /\ OpenedBy(storages[n], f).path = storages[n].obj[f].path

\* the directories opened as environments through each registry
LmdbDirectories == {environments[h].dir : h \in 1..Len(environments)}

MdbxDirectories == {databases[h].dir : h \in 1..Len(databases)}

\* C38: the three instances of one embedded backend are bound to pairwise
\* distinct directories and registry entries, and no directory is opened as an
\* environment through both the LMDB and the MDBX registry, whatever base
\* paths the storages were constructed with.
C38_DirectoriesDisjoint ==
    /\ NamespacesApart
    /\ LmdbDirectories \cap MdbxDirectories = {}

\* no directory other than an acl-indexes one is opened through both
\* registries
OnlyAzDirectoryShared ==
    LmdbDirectories \cap MdbxDirectories
       \subseteq {InstanceDir("lmdb", p, 3) : p \in Paths}

\* an LMDBStorage and an MDBXStorage constructed with one base path
BothEnginesOnOnePath ==
    /\ Len(storages) = 2
    /\ storages[1].engine # storages[2].engine
    /\ storages[1].db_path = storages[2].db_path


============================================================================
